---- MODULE Spec2Model ----
(***************************************************************************)
(* A model of core_types/src/time.rs: the Period and Iso8601 value types,  *)
(* their text grammars (PERIOD_RE, ISO8601_RE), their canonical formatters *)
(* and their numeric conversions.                                          *)
(*                                                                         *)
(* Text is a sequence of characters, each character a string: an ASCII     *)
(* character is itself ("y", "5", " "), a non-ASCII one is named by its    *)
(* code point ("U+2212").  A u64 is a sequence of decimal digits, most     *)
(* significant first, without leading zeros (zero is <<0>>), so that the   *)
(* full 64-bit range is kept: TLC's own integers are 32 bits wide.         *)
(***************************************************************************)
EXTENDS Integers, Sequences, FiniteSets, TLC

VARIABLES
  op,      \* the operation that ran last ("new": none yet)
  toks,    \* the pieces the caller assembled the input from, in order
  steps,   \* how many increments the caller built the input value from
  text,    \* the text handed to a parser or produced by a formatter, or the
           \* scalar handed to a deserializer or produced by a serializer
  captured, \* what Regex::captures returned in the last parse: <<>> or <<groups>>
  period,  \* the Period value under conversion
  result,  \* what the last fallible operation returned
  env,     \* the build the operation ran in: overflow checks, usize width
  vec,     \* a Vec<Iso8601>
  epoch    \* the integer handed to Iso8601::from: [ty, neg, mag]

vars == <<op, toks, steps, text, captured, period, result, env, vec, epoch>>

(***************************************************************************)
(* Characters                                                              *)
(***************************************************************************)

\* The ASCII characters 0x20..0x7E in code point order.
AsciiTable ==
  << " ", "!", "U+0022", "#", "$", "%", "&", "'", "(", ")", "*", "+", ",", "-", ".", "/",
     "0", "1", "2", "3", "4", "5", "6", "7", "8", "9", ":", ";", "<", "=", ">", "?",
     "@", "A", "B", "C", "D", "E", "F", "G", "H", "I", "J", "K", "L", "M", "N", "O",
     "P", "Q", "R", "S", "T", "U", "V", "W", "X", "Y", "Z", "[", "U+005C", "]", "^", "_",
     "U+0060", "a", "b", "c", "d", "e", "f", "g", "h", "i", "j", "k", "l", "m", "n", "o",
     "p", "q", "r", "s", "t", "u", "v", "w", "x", "y", "z", "{", "|", "}", "~" >>

\* U+03BC GREEK SMALL LETTER MU, U+2212 MINUS SIGN, U+0663 ARABIC-INDIC DIGIT THREE
Mu == "U+03BC"
UMinus == "U+2212"
ArabicThree == "U+0663"

CodePoint(c) ==
  CASE c = "\t" -> 9
    [] c = Mu -> 956
    [] c = UMinus -> 8722
    [] c = ArabicThree -> 1635
    [] OTHER -> 31 + (CHOOSE i \in 1..Len(AsciiTable) : AsciiTable[i] = c)

AsciiDigits == <<"0", "1", "2", "3", "4", "5", "6", "7", "8", "9">>

IsAsciiDigit(c) == \E i \in 1..10 : AsciiDigits[i] = c

DigitVal(c) == (CHOOSE i \in 1..10 : AsciiDigits[i] = c) - 1

DigitChar(d) == AsciiDigits[d + 1]

\* regex \d (Unicode mode): any decimal digit, not only ASCII
IsDigit(c) == IsAsciiDigit(c) \/ c = ArabicThree

\* regex \s
IsSpace(c) == c \in {" ", "\t"}

\* simple case folding, as (?i) applies it
Fold(c) ==
  LET cp == CodePoint(c)
  IN  IF cp >= 65 /\ cp <= 90 THEN AsciiTable[cp + 32 - 31] ELSE c

(***************************************************************************)
(* u64 arithmetic on decimal digit sequences                               *)
(***************************************************************************)

\* the sequence f, with its elements evaluated once
Tuple(f) == SubSeq(f, 1, Len(f))

\* a without its leading zeros
BigNorm(a) ==
  LET nz == {i \in 1..Len(a) : a[i] # 0}
  IN  IF nz = {} THEN <<0>>
      ELSE SubSeq(a, CHOOSE i \in nz : \A j \in nz : i <= j, Len(a))

\* the digit of a at decimal place k (place 0 is the units)
BigDigitAt(a, k) == IF k < Len(a) THEN a[Len(a) - k] ELSE 0

\* the digits of a machine integer 0 <= n < 2^31
BigOf(n) == BigNorm([i \in 1..10 |-> (n \div 10^(10 - i)) % 10])

\* the w digits of a from place p upward, as a machine integer (w <= 9)
RECURSIVE BigChunk(_, _, _)
BigChunk(a, p, w) ==
  IF w = 0 THEN 0
  ELSE IF w = 1 THEN BigDigitAt(a, p)
  ELSE BigChunk(a, p, w \div 2)
       + 10^(w \div 2) * BigChunk(a, p + (w \div 2), w - (w \div 2))

\* a below 2^31 as a machine integer
BigToInt(a) == BigChunk(a, 0, Len(a))

\* a cut into n numbers of w digits each, the least significant first
BigChunks(a, w, n) == Tuple([k \in 1..n |-> BigChunk(a, w * (k - 1), w)])

\* the number whose w-digit chunks, the least significant first, are cs
BigOfChunks(cs, w) ==
  LET n == w * Len(cs)
  IN  BigNorm(Tuple([i \in 1..n |->
                       (cs[((n - i) \div w) + 1] \div 10^((n - i) % w)) % 10]))

\* -1, 0, 1 as a < b, a = b, a > b (both normalised)
BigCmp(a, b) ==
  IF Len(a) # Len(b) THEN (IF Len(a) < Len(b) THEN -1 ELSE 1)
  ELSE LET d == {i \in 1..Len(a) : a[i] # b[i]}
       IN  IF d = {} THEN 0
           ELSE LET f == CHOOSE i \in d : \A j \in d : i <= j
                IN  IF a[f] < b[f] THEN -1 ELSE 1

\* a + b, nine digits at a time; a carry enters chunk k when a lower chunk
\* overflows and every chunk between is full
BigAdd(a, b) ==
  IF a = <<0>> THEN b
  ELSE IF b = <<0>> THEN a
  ELSE
  LET n == ((IF Len(a) > Len(b) THEN Len(a) ELSE Len(b)) \div 9) + 1
      x == BigChunks(a, 9, n)
      y == BigChunks(b, 9, n)
      carry(k) == \E j \in 1..(k - 1) :
                     /\ x[j] + y[j] >= 10^9
                     /\ \A i \in (j + 1)..(k - 1) : x[i] + y[i] = 10^9 - 1
  IN  BigOfChunks([k \in 1..n |->
                     (x[k] + y[k] + (IF carry(k) THEN 1 ELSE 0)) % 10^9], 9)

\* a - b for a >= b
BigSub(a, b) ==
  IF a = b THEN <<0>>
  ELSE
  LET n == (Len(a) \div 9) + 1
      x == BigChunks(a, 9, n)
      y == BigChunks(b, 9, n)
      borrow(k) == \E j \in 1..(k - 1) :
                      /\ x[j] < y[j]
                      /\ \A i \in (j + 1)..(k - 1) : x[i] = y[i]
  IN  BigOfChunks([k \in 1..n |->
                     (x[k] - y[k] - (IF borrow(k) THEN 1 ELSE 0) + 10^9) % 10^9], 9)

\* a / 10^k and a % 10^k
BigDivPow10(a, k) == IF Len(a) <= k THEN <<0>> ELSE SubSeq(a, 1, Len(a) - k)

BigModPow10(a, k) ==
  IF Len(a) <= k THEN a ELSE BigNorm(SubSeq(a, Len(a) - k + 1, Len(a)))

\* the number of trailing decimal zeros of c > 0
TrailingZeros(c) ==
  CHOOSE z \in 0..9 : c % 10^z = 0 /\ (z = 9 \/ c % 10^(z + 1) # 0)

\* the widest chunk, in digits, whose product with c stays a machine integer
ChunkWidth(c) ==
  CHOOSE w \in 1..9 :
     /\ 10^w <= 2147483647 \div c
     /\ (w = 9 \/ 10^(w + 1) > 2147483647 \div c)

RECURSIVE MulChunks(_, _, _, _, _)
MulChunks(cs, c, w, k, carry) ==
  IF k > Len(cs) /\ carry = 0 THEN <<>>
  ELSE LET t == (IF k <= Len(cs) THEN cs[k] ELSE 0) * c + carry
       IN  <<t % 10^w>> \o MulChunks(cs, c, w, k + 1, t \div 10^w)

\* a * c for a machine-word constant c
BigMulSmall(a, c) ==
  IF c = 0 \/ a = <<0>> THEN <<0>>
  ELSE LET z == TrailingZeros(c)
           m == c \div 10^z
           w == ChunkWidth(m)
           n == (Len(a) + w - 1) \div w
           prod == BigOfChunks(MulChunks(BigChunks(a, w, n), m, w, 1, 0), w)
       IN  BigNorm(prod \o [i \in 1..z |-> 0])

\* the remainder left by the long division by c of chunks Len(cs), .., k
RECURSIVE DivRem(_, _, _, _)
DivRem(cs, c, w, k) ==
  IF k > Len(cs) THEN 0 ELSE (DivRem(cs, c, w, k + 1) * 10^w + cs[k]) % c

\* <<a / c, a % c>> for a machine-word constant c > 0: long division
BigDivModSmall(a, c) ==
  IF a = <<0>> THEN << <<0>>, 0 >>
  ELSE
  LET z == TrailingZeros(c)
      m == c \div 10^z
      w == ChunkWidth(m)
      hi == BigDivPow10(a, z)
      n == (Len(hi) + w - 1) \div w
      cs == BigChunks(hi, w, n)
      rems == Tuple([k \in 1..(n + 1) |-> DivRem(cs, m, w, k)])
  IN  << BigOfChunks([k \in 1..n |-> (rems[k + 1] * 10^w + cs[k]) \div m], w),
         rems[1] * 10^z + BigChunk(a, 0, z) >>

BigDivSmall(a, c) == BigDivModSmall(a, c)[1]

BigModSmall(a, c) == BigDivModSmall(a, c)[2]

\* u64::max_value() and 2^64
U64Max == <<1,8,4,4,6,7,4,4,0,7,3,7,0,9,5,5,1,6,1,5>>
Pow64 == <<1,8,4,4,6,7,4,4,0,7,3,7,0,9,5,5,1,6,1,6>>

FitsU64(a) == BigCmp(a, U64Max) <= 0

\* a / 2^64 for a < 2^95, as a machine integer
DivPow64(a) ==
  BigToInt(BigDivSmall(BigDivSmall(BigDivSmall(BigDivSmall(a, 65536), 65536),
                                   65536), 65536))

\* the value a wrapping u64 operation leaves: a mod 2^64
WrapU64(a) ==
  IF FitsU64(a) THEN a ELSE BigSub(a, BigMulSmall(Pow64, DivPow64(a)))

\* a mod 2^32
WrapU32(a) ==
  BigAdd(BigOf(BigModSmall(a, 65536)),
         BigMulSmall(BigOf(BigModSmall(BigDivSmall(a, 65536), 65536)), 65536))

(***************************************************************************)
(* Regular expressions, as the regex crate matches them: the matcher lists *)
(* the ways a node can match from a state in the crate's order of          *)
(* preference (leftmost-first: an earlier alternative, a longer greedy     *)
(* repetition, a present optional come first), so the head of the list for *)
(* a whole anchored pattern is the match captures() reports.  Of two ways   *)
(* that reach the same position only the preferred one is kept: what       *)
(* follows matches alike from both, so the other is never the first match. *)
(* A state is [pos, cap, open]: the next position to read; per named       *)
(* group, <<>> (did not take part) or <<the text it captured>>; and per    *)
(* named group, the position where its last attempt began.                 *)
(***************************************************************************)

Lit(c) == [t |-> "lit", c |-> c]
OneOf(set) == [t |-> "set", s |-> set]
Range(lo, hi) == [t |-> "range", lo |-> CodePoint(lo), hi |-> CodePoint(hi)]
Digit == [t |-> "digit"]
Space == [t |-> "space"]
\* the nodes xs, one after another; a sequence among them gives its own nodes
RECURSIVE Flat(_)
Flat(xs) ==
  IF xs = <<>> THEN <<>>
  ELSE (IF Head(xs).t = "cat" THEN Head(xs).xs ELSE <<Head(xs)>>) \o Flat(Tail(xs))

Cat(xs) == [t |-> "cat", xs |-> Flat(xs)]
Alt(xs) == [t |-> "alt", xs |-> xs]
Opt(x) == [t |-> "opt", x |-> x]
\* x*, for a node x that matches one character
Star(x) == [t |-> "star", x |-> x]
Plus(x) == Cat(<<x, Star(x)>>)
\* (?P<name>x): the group begins, x matches, the group ends
Cap(name, x) == Cat(<<[t |-> "open", n |-> name], x, [t |-> "close", n |-> name]>>)
EndOfText == [t |-> "eos"]
\* the characters cs, one after another
Str(cs) == [t |-> "str", cs |-> cs]

\* the nodes that match one character
CharNodes == {"lit", "set", "range", "digit", "space"}

CharMatches(n, c, ci) ==
  CASE n.t = "lit" -> IF ci THEN Fold(c) = Fold(n.c) ELSE c = n.c
    [] n.t = "set" -> c \in n.s
    [] n.t = "range" -> CodePoint(c) >= n.lo /\ CodePoint(c) <= n.hi
    [] n.t = "digit" -> IsDigit(c)
    [] n.t = "space" -> IsSpace(c)

\* a character matching n stands in str at position i
CharAt(n, str, i, ci) == i <= Len(str) /\ CharMatches(n, str[i], ci)

\* the characters cs stand in str at position from
StrMatches(cs, str, from, ci) ==
  /\ from + Len(cs) - 1 <= Len(str)
  /\ \A i \in 1..Len(cs) : CharMatches(Lit(cs[i]), str[from + i - 1], ci)

\* the end of the longest run of characters matching x from position from
RunEnd(x, str, from, ci) ==
  CHOOSE e \in from..(Len(str) + 1) :
     /\ \A i \in from..(e - 1) : CharMatches(x, str[i], ci)
     /\ ~CharAt(x, str, e, ci)

\* the states sts, each moved k characters on
Advance(sts, k) == Tuple([i \in 1..Len(sts) |-> [sts[i] EXCEPT !.pos = @ + k]])

\* the ways a, then those of b that end where none of a ends
Join(a, b) == a \o SelectSeq(b, LAMBDA st : \A i \in 1..Len(a) : a[i].pos # st.pos)

\* Every way to match n from each of the states sts, in order of preference.
\* A sequence matches its second half from wherever its first half ends; the
\* ways from an earlier state, and those of an earlier alternative, come
\* first; a repetition is greedy, the longest run first; an optional node
\* that matches comes before its omission.
RECURSIVE Match(_, _, _, _)
RECURSIVE MatchHalves(_, _, _, _)

MatchHalves(n, str, sts, ci) ==
  Join(Match(n, str, SubSeq(sts, 1, Len(sts) \div 2), ci),
       Match(n, str, SubSeq(sts, (Len(sts) \div 2) + 1, Len(sts)), ci))

Match(n, str, sts, ci) ==
  IF sts = <<>> THEN <<>>
  ELSE
  CASE n.t = "cat" /\ Len(n.xs) = 1 -> Match(n.xs[1], str, sts, ci)
    [] n.t = "cat" /\ Len(n.xs) > 1 ->
         Match([n EXCEPT !.xs = SubSeq(n.xs, (Len(n.xs) \div 2) + 1, Len(n.xs))], str,
               Match([n EXCEPT !.xs = SubSeq(n.xs, 1, Len(n.xs) \div 2)], str, sts, ci), ci)
    [] n.t \in CharNodes ->
         Advance(SelectSeq(sts, LAMBDA st : CharAt(n, str, st.pos, ci)), 1)
    [] n.t = "str" ->
         Advance(SelectSeq(sts, LAMBDA st : StrMatches(n.cs, str, st.pos, ci)),
                 Len(n.cs))
    [] n.t = "eos" -> SelectSeq(sts, LAMBDA st : st.pos = Len(str) + 1)
    [] n.t = "open" ->
         Tuple([i \in 1..Len(sts) |-> [sts[i] EXCEPT !.open[n.n] = sts[i].pos]])
    [] n.t = "close" ->
         Tuple([i \in 1..Len(sts) |->
                  [sts[i] EXCEPT !.cap[n.n] =
                                    <<SubSeq(str, sts[i].open[n.n], sts[i].pos - 1)>>]])
    [] n.t = "star" ->
         IF \A i \in 1..Len(sts) : ~CharAt(n.x, str, sts[i].pos, ci) THEN sts
         ELSE IF Len(sts) > 1 THEN MatchHalves(n, str, sts, ci)
         ELSE LET e == RunEnd(n.x, str, sts[1].pos, ci)
              IN  Tuple([i \in 1..(e - sts[1].pos + 1) |->
                           [sts[1] EXCEPT !.pos = e + 1 - i]])
    [] n.t = "opt" ->
         IF Len(sts) > 1 THEN MatchHalves(n, str, sts, ci)
         ELSE Join(Match(n.x, str, sts, ci), sts)
    [] n.t = "alt" /\ Len(sts) > 1 -> MatchHalves(n, str, sts, ci)
    [] n.t = "alt" /\ Len(sts) = 1 /\ Len(n.xs) = 1 -> Match(n.xs[1], str, sts, ci)
    [] n.t = "alt" /\ Len(sts) = 1 /\ Len(n.xs) > 1 ->
         Join(Match([n EXCEPT !.xs = SubSeq(n.xs, 1, Len(n.xs) \div 2)], str, sts, ci),
              Match([n EXCEPT !.xs = SubSeq(n.xs, (Len(n.xs) \div 2) + 1, Len(n.xs))], str, sts, ci))

\* Regex::captures on a pattern anchored with ^: <<>> (None) or <<cap>>
Captures(re, names, str, ci) ==
  LET all == Match(re, str, <<[pos |-> 1, cap |-> [n \in names |-> <<>>],
                               open |-> [n \in names |-> 1]]>>, ci)
  IN  IF all = <<>> THEN <<>> ELSE <<all[1].cap>>

(***************************************************************************)
(* Period                                                                  *)
(***************************************************************************)

\* seconds per unit
YR == 31557600
WK == 604800
DY == 86400
HR == 3600
MN == 60
MsNanos == 1000000
UsNanos == 1000

\* A Period is a Duration: [secs |-> u64, nanos |-> 0..999999999]
Duration(secs, nanos) == [secs |-> secs, nanos |-> nanos]

\* "{}" of an unsigned integer
U64Text(a) == [i \in 1..Len(a) |-> DigitChar(a[i])]
IntText(n) == U64Text(BigOf(n))

\* a "{}<suffix>" write made for every count
UnitText_Always(n, suffix) == IntText(n) \o suffix

\* one "{}<suffix>" write, made only when the count is positive
UnitText(n, suffix) == IF n > 0 THEN IntText(n) \o suffix ELSE <<>>

\* format!("{:0>9}", nsecs)
RECURSIVE PadLeft(_, _, _)
PadLeft(cs, c, width) == IF Len(cs) >= width THEN cs ELSE PadLeft(<<c>> \o cs, c, width)

\* str::trim_end_matches(c)
RECURSIVE TrimEnd(_, _)
TrimEnd(cs, c) ==
  IF cs # <<>> /\ cs[Len(cs)] = c THEN TrimEnd(SubSeq(cs, 1, Len(cs) - 1), c) ELSE cs

\* SubSecondText with the nanoseconds of the fractional form written without
\* their leading zeros
SubSecondText_NoPad(secs_zero, s, nsecs) ==
  LET is_ns == (nsecs % 1000) > 0
      is_us == ((nsecs \div 1000) % 1000) > 0
      is_ms == (nsecs \div 1000000) > 0
  IN  IF (s > 0 /\ is_ms) \/ (is_ms /\ is_ns)
      THEN IntText(s) \o <<".">> \o TrimEnd(IntText(nsecs), "0") \o <<"s">>
      ELSE IF nsecs > 0 \/ s > 0
      THEN UnitText(s, <<"s">>)
           \o (IF is_ns THEN IntText(nsecs) \o <<"n", "s">>
               ELSE IF is_us THEN IntText(nsecs \div 1000) \o <<"u", "s">>
               ELSE IF is_ms THEN IntText(nsecs \div 1000000) \o <<"m", "s">>
               ELSE <<>>)
      ELSE IF nsecs = 0 /\ secs_zero THEN <<"0", "s">>
      ELSE <<>>

\* SubSecondText with the fractional form kept for positive whole seconds
SubSecondText_SecondsOnly(secs_zero, s, nsecs) ==
  LET is_ns == (nsecs % 1000) > 0
      is_us == ((nsecs \div 1000) % 1000) > 0
      is_ms == (nsecs \div 1000000) > 0
  IN  IF s > 0 /\ is_ms
      THEN IntText(s) \o <<".">> \o TrimEnd(PadLeft(IntText(nsecs), "0", 9), "0") \o <<"s">>
      ELSE IF nsecs > 0 \/ s > 0
      THEN UnitText(s, <<"s">>)
           \o (IF is_ns THEN IntText(nsecs) \o <<"n", "s">>
               ELSE IF is_us THEN IntText(nsecs \div 1000) \o <<"u", "s">>
               ELSE IF is_ms THEN IntText(nsecs \div 1000000) \o <<"m", "s">>
               ELSE <<>>)
      ELSE IF nsecs = 0 /\ secs_zero THEN <<"0", "s">>
      ELSE <<>>

\* SubSecondText scaled to the coarsest unit that has data
SubSecondText_Coarsest(secs_zero, s, nsecs) ==
  LET is_ns == (nsecs % 1000) > 0
      is_us == ((nsecs \div 1000) % 1000) > 0
      is_ms == (nsecs \div 1000000) > 0
  IN  IF (s > 0 /\ is_ms) \/ (is_ms /\ is_ns)
      THEN IntText(s) \o <<".">> \o TrimEnd(PadLeft(IntText(nsecs), "0", 9), "0") \o <<"s">>
      ELSE IF nsecs > 0 \/ s > 0
      THEN UnitText(s, <<"s">>)
           \o (IF is_ms THEN IntText(nsecs \div 1000000) \o <<"m", "s">>
               ELSE IF is_us THEN IntText(nsecs \div 1000) \o <<"u", "s">>
               ELSE IF is_ns THEN IntText(nsecs) \o <<"n", "s">>
               ELSE <<>>)
      ELSE IF nsecs = 0 /\ secs_zero THEN <<"0", "s">>
      ELSE <<>>

\* the seconds and sub-second part of Display for Period
SubSecondText(secs_zero, s, nsecs) ==
  LET is_ns == (nsecs % 1000) > 0
      is_us == ((nsecs \div 1000) % 1000) > 0
      is_ms == (nsecs \div 1000000) > 0
  IN  IF (s > 0 /\ is_ms) \/ (is_ms /\ is_ns)
      THEN IntText(s) \o <<".">> \o TrimEnd(PadLeft(IntText(nsecs), "0", 9), "0") \o <<"s">>
      ELSE IF nsecs > 0 \/ s > 0
      THEN UnitText(s, <<"s">>)
           \o (IF is_ns THEN IntText(nsecs) \o <<"n", "s">>
               ELSE IF is_us THEN IntText(nsecs \div 1000) \o <<"u", "s">>
               ELSE IF is_ms THEN IntText(nsecs \div 1000000) \o <<"m", "s">>
               ELSE <<>>)
      ELSE IF nsecs = 0 /\ secs_zero THEN <<"0", "s">>
      ELSE <<>>

\* impl fmt::Display for Period
PeriodFormat(p) ==
  LET y == BigDivSmall(p.secs, YR)
      y_secs == BigModSmall(p.secs, YR)
      w == y_secs \div WK
      w_secs == y_secs % WK
      d == w_secs \div DY
      d_secs == w_secs % DY
      h == d_secs \div HR
      h_secs == d_secs % HR
      m == h_secs \div MN
      s == h_secs % MN
  IN  (IF y # <<0>> THEN U64Text(y) \o <<"y">> ELSE <<>>)
      \o UnitText(w, <<"w">>) \o UnitText(d, <<"d">>)
      \o UnitText(h, <<"h">>) \o UnitText(m, <<"m">>)
      \o SubSecondText(p.secs = <<0>>, s, p.nanos)

\* s((ec(ond)?)s?)?
SecondSuffix ==
  Cat(<<Lit("s"),
        Opt(Cat(<<Cat(<<Str(<<"e", "c">>), Opt(Str(<<"o", "n", "d">>))>>),
                  Opt(Lit("s"))>>))>>)

\* <first>((((<middle>)?<last>)s?)?)?, the long forms of y, w, d and h
LongSuffix(first, middle, last) ==
  Cat(<<Lit(first),
        Opt(Opt(Cat(<<Cat(<<Opt(Str(middle)), Lit(last)>>), Opt(Lit("s"))>>)))>>)

\* (?:\s*(?P<name>\d+)\s*<unit>)?
Term(name, unit) ==
  Opt(Cat(<<Star(Space), Cap(name, Plus(Digit)), Star(Space), unit>>))

\* (:?\s*(?P<s> \d+)\s* s((ec(ond)?)s?)?)?  -- the group opens with an
\* optional ':' (it is written "(:?", not "(?:")
SecondsTerm ==
  Opt(Cat(<<Opt(Lit(":")), Star(Space), Cap("s", Plus(Digit)), Star(Space),
            SecondSuffix>>))

\* (?:\s*(?P<s_man>\d+)?[.,](?P<s_fra>\d+)\s*s((ec(ond)?)s?)?)?
FractionTerm ==
  Opt(Cat(<<Star(Space), Opt(Cap("s_man", Plus(Digit))), OneOf({".", ","}),
            Cap("s_fra", Plus(Digit)), Star(Space), SecondSuffix>>))

\* the terms of years, weeks, days, hours and minutes, in the order written
LongTerms ==
  << Term("y", LongSuffix("y", <<"e", "a">>, "r")),
     Term("w", LongSuffix("w", <<"e", "e">>, "k")),
     Term("d", LongSuffix("d", <<"a">>, "y")),
     Term("h", LongSuffix("h", <<"o", "u">>, "r")),
     Term("m", Cat(<<Lit("m"),
                     Opt(Cat(<<Cat(<<Str(<<"i", "n">>), Opt(Str(<<"u", "t", "e">>))>>),
                               Opt(Lit("s"))>>))>>)) >>

\* whole seconds, then milliseconds, microseconds and nanoseconds
SubSecondTerms ==
  Cat(<<SecondsTerm,
        Term("ms", Cat(<<Alt(<<Lit("m"), Str(<<"m", "i", "l", "l", "i">>)>>),
                         SecondSuffix>>)),
        Term("us", Cat(<<Alt(<<Lit("u"), Lit(Mu),
                               Str(<<"m", "i", "c", "r", "o">>)>>),
                         SecondSuffix>>)),
        Term("ns", Cat(<<Alt(<<Lit("n"), Str(<<"n", "a", "n", "o">>)>>),
                         SecondSuffix>>))>>)

\* PERIOD_RE with the fractional and the explicit forms both allowed in one text
PERIOD_RE_Mixed ==
  Cat(LongTerms \o <<FractionTerm, SubSecondTerms, Star(Space), EndOfText>>)

\* PERIOD_RE with the seconds terms written before the longer units
PERIOD_RE_SecondsFirst ==
  Cat(<<Alt(<<FractionTerm, SubSecondTerms>>)>> \o LongTerms
      \o <<Star(Space), EndOfText>>)

PERIOD_RE ==
  Cat(LongTerms \o <<Alt(<<FractionTerm, SubSecondTerms>>), Star(Space), EndOfText>>)

PeriodGroups == {"y", "w", "d", "h", "m", "s_man", "s_fra", "s", "ms", "us", "ns"}

\* PERIOD_RE without the i flag
PeriodCaptures_CaseSensitive(str) == Captures(PERIOD_RE, PeriodGroups, str, FALSE)

PeriodCaptures(str) == Captures(PERIOD_RE, PeriodGroups, str, TRUE)

\* results of a fallible operation: Ok(value), Err(HolochainError::ErrorGeneric
\* (message about the input)), or a panic (the thread unwinds, nothing returned)
Ok(v) == [kind |-> "Ok", val |-> v]
Err(msg, input) == [kind |-> "Err", msg |-> msg, input |-> input]
Panic(msg) == [kind |-> "Panic", msg |-> msg]

\* str::parse::<u64>: ASCII digits only, and the value must fit
ParseU64(cs) ==
  IF \E i \in 1..Len(cs) : ~IsAsciiDigit(cs[i]) THEN <<>>
  ELSE LET v == BigNorm([i \in 1..Len(cs) |-> DigitVal(cs[i])])
       IN  IF FitsU64(v) THEN <<v>> ELSE <<>>

\* format!("{:0<9.9}", s): cut to 9 characters, filled with '0' on the right
RECURSIVE PadRight(_, _, _)
PadRight(cs, c, width) == IF Len(cs) >= width THEN cs ELSE PadRight(Append(cs, c), c, width)

\* "{:0<9}": filled on the right, nothing cut
Fill9_NoCut(cs) == PadRight(cs, "0", 9)

Fill9(cs) == PadRight(IF Len(cs) > 9 THEN SubSeq(cs, 1, 9) ELSE cs, "0", 9)

\* cap.name(n).map_or("0", |m| m.as_str())
FieldOr0(cap, n) == IF cap[n] = <<>> THEN <<"0">> ELSE cap[n][1]

\* the terms of the seconds sum and of the nanoseconds sum, in source order:
\* the field's text, its weight, and the message of its parse failure
SecondsTerms(cap) ==
  << [txt |-> FieldOr0(cap, "y"), wt |-> YR, msg |-> "Invalid year(s) in period"],
     [txt |-> FieldOr0(cap, "w"), wt |-> WK, msg |-> "Invalid week(s) in period"],
     [txt |-> FieldOr0(cap, "d"), wt |-> DY, msg |-> "Invalid days(s) in period"],
     [txt |-> FieldOr0(cap, "h"), wt |-> HR, msg |-> "Invalid hour(s) in period"],
     [txt |-> FieldOr0(cap, "m"), wt |-> MN, msg |-> "Invalid minute(s) in period"],
     [txt |-> IF cap["s"] = <<>> THEN FieldOr0(cap, "s_man") ELSE cap["s"][1],
      wt |-> 1, msg |-> "Invalid seconds in period"] >>

\* the nanoseconds sum with milliseconds weighed as microseconds
NanosTerms_Milli(cap) ==
  << [txt |-> IF cap["s_fra"] = <<>> THEN <<"0">> ELSE Fill9(cap["s_fra"][1]),
      wt |-> 1, msg |-> "Invalid fractional seconds in period"],
     [txt |-> FieldOr0(cap, "ms"), wt |-> UsNanos, msg |-> "Invalid milliseconds in period"],
     [txt |-> FieldOr0(cap, "us"), wt |-> UsNanos, msg |-> "Invalid microseconds in period"],
     [txt |-> FieldOr0(cap, "ns"), wt |-> 1, msg |-> "Invalid nanoseconds in period"] >>

NanosTerms(cap) ==
  << [txt |-> IF cap["s_fra"] = <<>> THEN <<"0">> ELSE Fill9(cap["s_fra"][1]),
      wt |-> 1, msg |-> "Invalid fractional seconds in period"],
     [txt |-> FieldOr0(cap, "ms"), wt |-> MsNanos, msg |-> "Invalid milliseconds in period"],
     [txt |-> FieldOr0(cap, "us"), wt |-> UsNanos, msg |-> "Invalid microseconds in period"],
     [txt |-> FieldOr0(cap, "ns"), wt |-> 1, msg |-> "Invalid nanoseconds in period"] >>

\* A u64 operation whose exact result is a: with overflow checks (a debug
\* build) it panics when a does not fit, without them (a release build) it
\* wraps.
U64Op(a, checked) ==
  IF FitsU64(a) THEN Ok(a)
  ELSE IF checked THEN Panic("arithmetic overflow")
  ELSE Ok(WrapU64(a))

\* wt_1 * parse(txt_1)? + wt_2 * parse(txt_2)? + ..., evaluated left to right
RECURSIVE WeightedSum(_, _, _, _, _)
WeightedSum(terms, i, acc, input, checked) ==
  IF i > Len(terms) THEN Ok(acc)
  ELSE LET n == ParseU64(terms[i].txt)
       IN  IF n = <<>> THEN Err(terms[i].msg, input)
           ELSE LET prod == U64Op(BigMulSmall(n[1], terms[i].wt), checked)
                IN  IF prod.kind # "Ok" THEN prod
                    ELSE LET sum == U64Op(BigAdd(acc, prod.val), checked)
                         IN  IF sum.kind # "Ok" THEN sum
                             ELSE WeightedSum(terms, i + 1, sum.val, input, checked)

\* Period::from_str once PERIOD_RE.captures has returned caps, in a build with
\* (checked) or without overflow checks
PeriodFromCaptures(caps, str, checked) ==
      IF caps = <<>> THEN Err("Failed to find Period specification in", str)
      ELSE LET seconds == WeightedSum(SecondsTerms(caps[1]), 1, <<0>>, str, checked)
           IN  IF seconds.kind # "Ok" THEN seconds
               ELSE LET nanos == WeightedSum(NanosTerms(caps[1]), 1, <<0>>, str, checked)
                    IN  IF nanos.kind # "Ok" THEN nanos
                        ELSE LET secs == U64Op(BigAdd(seconds.val,
                                                      BigDivPow10(nanos.val, 9)), checked)
                             IN  IF secs.kind # "Ok" THEN secs
                                 ELSE Ok(Duration(secs.val,
                                                  BigToInt(BigModPow10(nanos.val, 9))))

\* Period::from_str
PeriodFromStr(str, checked) == PeriodFromCaptures(PeriodCaptures(str), str, checked)

(***************************************************************************)
(* Timeout                                                                 *)
(***************************************************************************)

\* usize::max_value() of a 32-bit target (wasm32) and of a 64-bit target
UsizeMax(bits) == IF bits = 32 THEN <<4,2,9,4,9,6,7,2,9,5>> ELSE U64Max

\* `x as usize`: the low `bits` bits of a u64
AsUsize(a, bits) ==
  IF BigCmp(a, UsizeMax(bits)) <= 0 THEN a
  ELSE WrapU32(a)

\* a usize operation whose exact result is a (see U64Op)
UsizeOp(a, bits, checked) ==
  IF BigCmp(a, UsizeMax(bits)) <= 0 THEN Ok(a)
  ELSE IF checked THEN Panic("arithmetic overflow")
  ELSE Ok(AsUsize(a, bits))

\* impl From<Period> for Timeout, on a target whose usize has `bits` bits
TimeoutFromPeriod(p, bits, checked) ==
  LET secs == AsUsize(p.secs, bits)
  IN  IF BigCmp(secs, BigDivSmall(UsizeMax(bits), 1000)) >= 0
      THEN Ok(UsizeMax(bits))
      ELSE LET ms == UsizeOp(BigMulSmall(secs, 1000), bits, checked)
           IN  IF ms.kind # "Ok" THEN ms
               ELSE UsizeOp(BigAdd(ms.val, BigOf(p.nanos \div 1000000)), bits, checked)

(***************************************************************************)
(* Iso8601: a DateTime<FixedOffset>.  An instant is                        *)
(*   [days, sod, frac, off]: the UTC date as days since 1970-01-01, the    *)
(*   UTC second of the day, the nanoseconds (1_000_000_000 and more within *)
(*   a leap second, as chrono keeps them) and the offset in seconds east.  *)
(***************************************************************************)

IsLeapYear(y) == (y % 4 = 0 /\ y % 100 # 0) \/ y % 400 = 0

DaysInMonth(y, m) ==
  IF m = 2 THEN (IF IsLeapYear(y) THEN 29 ELSE 28)
  ELSE IF m \in {4, 6, 9, 11} THEN 30 ELSE 31

\* days from 1970-01-01 to the proleptic Gregorian date y-m-d
DaysFromCivil(y, m, d) ==
  LET yy == IF m <= 2 THEN y - 1 ELSE y
      era == yy \div 400
      yoe == yy - era * 400
      mp == IF m > 2 THEN m - 3 ELSE m + 9
      doy == (153 * mp + 2) \div 5 + d - 1
      doe == yoe * 365 + yoe \div 4 - yoe \div 100 + doy
  IN  era * 146097 + doe - 719468

\* the date [y, m, d] of a day number
CivilFromDays(z) ==
  LET zz == z + 719468
      era == zz \div 146097
      doe == zz - era * 146097
      yoe == (doe - doe \div 1460 + doe \div 36524 - doe \div 146096) \div 365
      doy == doe - (365 * yoe + yoe \div 4 - yoe \div 100)
      mp == (5 * doy + 2) \div 153
      m == IF mp < 10 THEN mp + 3 ELSE mp - 9
  IN  [y |-> yoe + era * 400 + (IF m <= 2 THEN 1 ELSE 0),
       m |-> m,
       d |-> doy - (153 * mp + 2) \div 5 + 1]

\* chrono's MIN_YEAR and MAX_YEAR (i32::MIN >> 13, i32::MAX >> 13)
MinYear == -262144
MaxYear == 262143

Instant(days, sod, frac, off) == [days |-> days, sod |-> sod, frac |-> frac, off |-> off]

\* the local date and time an offset-aware instant shows, as utc + offset
LocalDays(t) == t.days + (t.sod + t.off) \div 86400
LocalSod(t) == (t.sod + t.off) % 86400

\* FixedOffset::from_local_datetime: the instant of a local civil time
InstantOfLocal(y, m, d, h, mi, s, nano, off) ==
  LET lsod == h * 3600 + mi * 60 + (IF s = 60 THEN 59 ELSE s)
      frac == nano + (IF s = 60 THEN 1000000000 ELSE 0)
  IN  Instant(DaysFromCivil(y, m, d) + (lsod - off) \div 86400,
              (lsod - off) % 86400, frac, off)

AllAsciiDigits(str, from, to) ==
  to <= Len(str) /\ \A i \in from..to : IsAsciiDigit(str[i])

Num2(str, i) == DigitVal(str[i]) * 10 + DigitVal(str[i + 1])

\* the end (exclusive) of the run of ASCII digits that starts at i
RECURSIVE DigitsEnd(_, _)
DigitsEnd(str, i) ==
  IF i <= Len(str) /\ IsAsciiDigit(str[i]) THEN DigitsEnd(str, i + 1) ELSE i

\* scan::nanosecond: up to 9 digits, scaled to nanoseconds; further digits dropped
RECURSIVE Nanos9(_, _, _, _)
Nanos9(str, i, k, acc) ==
  IF k = 9 THEN acc
  ELSE IF i <= Len(str) /\ IsAsciiDigit(str[i])
  THEN Nanos9(str, i + 1, k + 1, acc * 10 + DigitVal(str[i]))
  ELSE Nanos9(str, i, k + 1, acc * 10)

\* scan::timezone_offset_zulu with a mandatory colon, which must end the text:
\* <<>> or <<offset in seconds>>
StrictOffset(str, i) ==
  IF i = Len(str) /\ str[i] \in {"Z", "z"} THEN <<0>>
  ELSE IF i + 5 = Len(str) /\ str[i] \in {"+", "-"}
          /\ AllAsciiDigits(str, i + 1, i + 2) /\ str[i + 3] = ":"
          /\ AllAsciiDigits(str, i + 4, i + 5) /\ DigitVal(str[i + 4]) <= 5
  THEN LET secs == Num2(str, i + 1) * 3600 + Num2(str, i + 4) * 60
       IN  IF secs >= 86400 THEN <<>>
           ELSE <<IF str[i] = "-" THEN 0 - secs ELSE secs>>
  ELSE <<>>

\* DateTime::parse_from_rfc3339: <<>> (an error) or <<instant>>
ParseRfc3339(str) ==
  IF ~(/\ Len(str) >= 20
       /\ AllAsciiDigits(str, 1, 4) /\ str[5] = "-"
       /\ AllAsciiDigits(str, 6, 7) /\ str[8] = "-"
       /\ AllAsciiDigits(str, 9, 10) /\ str[11] \in {"T", "t"}
       /\ AllAsciiDigits(str, 12, 13) /\ str[14] = ":"
       /\ AllAsciiDigits(str, 15, 16) /\ str[17] = ":"
       /\ AllAsciiDigits(str, 18, 19))
  THEN <<>>
  ELSE LET has_frac == str[20] = "."
           zpos == IF has_frac THEN DigitsEnd(str, 21) ELSE 20
           nano == IF has_frac THEN Nanos9(str, 21, 0, 0) ELSE 0
           y == Num2(str, 1) * 100 + Num2(str, 3)
           m == Num2(str, 6)
           d == Num2(str, 9)
           h == Num2(str, 12)
           mi == Num2(str, 15)
           s == Num2(str, 18)
       IN  IF (has_frac /\ zpos = 21) \/ zpos > Len(str) THEN <<>>
           ELSE LET off == StrictOffset(str, zpos)
                IN  IF off = <<>> \/ m < 1 \/ m > 12 \/ d < 1 \/ d > DaysInMonth(y, m)
                       \/ h > 23 \/ mi > 59 \/ s > 60
                    THEN <<>>
                    ELSE <<InstantOfLocal(y, m, d, h, mi, s, nano, off[1])>>

\* "{:0Nd}"
IntTextPad(n, width) == PadLeft(IntText(n), "0", width)

\* NaiveTime's fraction: none, 3, 6 or 9 digits
FracText(nano) ==
  IF nano = 0 THEN <<>>
  ELSE IF nano % 1000000 = 0 THEN <<".">> \o IntTextPad(nano \div 1000000, 3)
  ELSE IF nano % 1000 = 0 THEN <<".">> \o IntTextPad(nano \div 1000, 6)
  ELSE <<".">> \o IntTextPad(nano, 9)

\* the year as NaiveDate writes it: four digits, or signed outside 0..9999
YearText(y) ==
  IF y < 0 THEN <<"-">> \o IntTextPad(0 - y, 4)
  ELSE IF y > 9999 THEN <<"+">> \o IntTextPad(y, 4)
  ELSE IntTextPad(y, 4)

\* to_rfc3339 with a leap second written as second 59
IsoFormat_NoLeap(t) ==
  LET date == CivilFromDays(LocalDays(t))
      lsod == LocalSod(t)
      leap == t.frac >= 1000000000
      aoff == IF t.off < 0 THEN 0 - t.off ELSE t.off
  IN  YearText(date.y) \o <<"-">> \o IntTextPad(date.m, 2) \o <<"-">>
      \o IntTextPad(date.d, 2) \o <<"T">>
      \o IntTextPad(lsod \div 3600, 2) \o <<":">>
      \o IntTextPad((lsod \div 60) % 60, 2) \o <<":">>
      \o IntTextPad(lsod % 60, 2)
      \o FracText(IF leap THEN t.frac - 1000000000 ELSE t.frac)
      \o <<IF t.off < 0 THEN "-" ELSE "+">>
      \o IntTextPad(aoff \div 3600, 2) \o <<":">> \o IntTextPad((aoff \div 60) % 60, 2)

\* impl fmt::Display for Iso8601: DateTime::to_rfc3339
IsoFormat(t) ==
  LET date == CivilFromDays(LocalDays(t))
      lsod == LocalSod(t)
      leap == t.frac >= 1000000000
      aoff == IF t.off < 0 THEN 0 - t.off ELSE t.off
  IN  YearText(date.y) \o <<"-">> \o IntTextPad(date.m, 2) \o <<"-">>
      \o IntTextPad(date.d, 2) \o <<"T">>
      \o IntTextPad(lsod \div 3600, 2) \o <<":">>
      \o IntTextPad((lsod \div 60) % 60, 2) \o <<":">>
      \o IntTextPad((lsod % 60) + (IF leap THEN 1 ELSE 0), 2)
      \o FracText(IF leap THEN t.frac - 1000000000 ELSE t.frac)
      \o <<IF t.off < 0 THEN "-" ELSE "+">>
      \o IntTextPad(aoff \div 3600, 2) \o <<":">> \o IntTextPad((aoff \div 60) % 60, 2)

\* \d{2} and \d{4}
Digits2 == Cat(<<Digit, Digit>>)
Digits4 == Cat(<<Digit, Digit, Digit, Digit>>)

\* (?P<Zsgn>[+-−]): inside a character class "+-−" is the range from '+'
\* (U+002B) to the minus sign (U+2212)
ZoneSign == Range("+", UMinus)

ISO8601_RE ==
  Cat(<<Star(Space),
        Cap("Y", Digits4),
        Opt(Cat(<<Opt(Lit("-")),
                  Opt(Cap("M", Alt(<<Cat(<<Lit("0"), Range("1", "9")>>),
                                     Cat(<<Lit("1"), OneOf({"0", "1", "2"})>>)>>))),
                  Opt(Cat(<<Opt(Lit("-")),
                            Opt(Cap("D", Alt(<<Cat(<<Lit("0"), Range("1", "9")>>),
                                               Cat(<<OneOf({"1", "2"}), Range("0", "9")>>),
                                               Cat(<<Lit("3"), OneOf({"0", "1"})>>)>>)))>>))>>)),
        Opt(Cat(<<Alt(<<OneOf({"T", "t"}), Plus(Space)>>),
                  Cap("h", Alt(<<Cat(<<OneOf({"0", "1"}), Range("0", "9")>>),
                                 Cat(<<Lit("2"), Range("0", "3")>>)>>)),
                  Opt(Cat(<<Opt(Lit(":")),
                            Cap("m", Cat(<<Range("0", "5"), Range("0", "9")>>)),
                            Opt(Cat(<<Opt(Lit(":")),
                                      Cap("s", Alt(<<Cat(<<Range("0", "5"), Range("0", "9")>>),
                                                     Str(<<"6", "0">>)>>)),
                                      Opt(Cat(<<OneOf({".", ","}),
                                                Cap("ss", Plus(Digit))>>))>>))>>))>>)),
        Star(Space),
        Opt(Cap("Z", Alt(<<OneOf({"Z", "z"}),
                           Cat(<<Cap("Zsgn", ZoneSign),
                                 Cap("Zhrs", Digits2),
                                 Opt(Cat(<<Opt(Lit(":")), Cap("Zmin", Digits2)>>))>>)>>))),
        Star(Space),
        EndOfText>>)

IsoGroups == {"Y", "M", "D", "h", "m", "s", "ss", "Z", "Zsgn", "Zhrs", "Zmin"}

IsoCaptures(str) == Captures(ISO8601_RE, IsoGroups, str, FALSE)

\* cap.name(n).map_or(dflt, |m| m.as_str())
FieldOr(cap, n, dflt) == IF cap[n] = <<>> THEN dflt ELSE cap[n][1]

\* the timezone section of the re-rendered timestamp
ZoneText(cap) ==
  IF cap["Z"] = <<>> \/ cap["Z"][1] \in {<<"Z">>, <<"z">>} THEN <<"Z">>
  ELSE <<IF cap["Zsgn"][1] = <<"+">> THEN "+" ELSE "-">>
       \o cap["Zhrs"][1] \o <<":">> \o FieldOr(cap, "Zmin", <<"0", "0">>)

\* every omitted date or time field rendered as 2
DefaultField_Two(n) == <<"2">>

\* the text map_or substitutes for a date or time field that took no part
DefaultField(n) == IF n \in {"M", "D"} THEN <<"1">> ELSE <<"0">>

\* format!("{:0>4}-{:0>2}-{:0>2}T{:0>2}:{:0>2}:{:0>2}{}{}", ...)
Rerender(cap) ==
  PadLeft(cap["Y"][1], "0", 4) \o <<"-">>
  \o PadLeft(FieldOr(cap, "M", DefaultField("M")), "0", 2) \o <<"-">>
  \o PadLeft(FieldOr(cap, "D", DefaultField("D")), "0", 2) \o <<"T">>
  \o PadLeft(FieldOr(cap, "h", DefaultField("h")), "0", 2) \o <<":">>
  \o PadLeft(FieldOr(cap, "m", DefaultField("m")), "0", 2) \o <<":">>
  \o PadLeft(FieldOr(cap, "s", DefaultField("s")), "0", 2)
  \o (IF cap["ss"] = <<>> THEN <<>> ELSE <<".">> \o cap["ss"][1])
  \o ZoneText(cap)

\* from_str with errors that do not carry the text
IsoFromParts_Anonymous(strict, caps, str) ==
  IF strict # <<>> THEN Ok(strict[1])
  ELSE IF caps = <<>> \/ ParseRfc3339(Rerender(caps[1])) = <<>>
  THEN Err("Failed to find ISO 3339 or RFC 8601 timestamp", <<>>)
  ELSE Ok(ParseRfc3339(Rerender(caps[1]))[1])

\* ISO8601_RE.captures(s), which runs only when parse_from_rfc3339(s) failed
IsoFallback(strict, str) == IF strict # <<>> THEN <<>> ELSE IsoCaptures(str)

\* Iso8601::from_str, given what parse_from_rfc3339(s) returned and what the
\* fallback captured
IsoFromParts(strict, caps, str) ==
  IF strict # <<>> THEN Ok(strict[1])
  ELSE IF caps = <<>>
  THEN Err("Failed to find ISO 3339 or RFC 8601 timestamp in", str)
  ELSE LET again == ParseRfc3339(Rerender(caps[1]))
       IN  IF again # <<>> THEN Ok(again[1])
           ELSE Err("Attempting to convert RFC 3339 timestamp from ISO 8601", str)

\* Iso8601::from_str
IsoFromStr(str) ==
  IsoFromParts(ParseRfc3339(str), IsoFallback(ParseRfc3339(str), str), str)

\* An integer of one of the accepted types is [ty, neg, mag]: the type, the
\* sign and the magnitude (a digit sequence).
I64Max == <<9,2,2,3,3,7,2,0,3,6,8,5,4,7,7,5,8,0,7>>

\* `secs as i64` of a u64, and secs.into() of the narrower types
AsI64(n) ==
  IF n.ty = "u64" /\ BigCmp(n.mag, I64Max) > 0
  THEN [neg |-> TRUE, mag |-> BigSub(Pow64, n.mag)]
  ELSE [neg |-> n.neg, mag |-> n.mag]

\* the days of chrono's first and last representable dates
MinDays == DaysFromCivil(MinYear, 1, 1)
MaxDays == DaysFromCivil(MaxYear, 12, 31)

\* Iso8601::new(secs, 0): FixedOffset::east(0).timestamp(secs, 0), which
\* panics when the date of secs is not representable
IsoNew(secs) ==
  LET whole == BigDivSmall(secs.mag, 86400)
      rest == BigModSmall(secs.mag, 86400)
      up == IF secs.neg /\ rest > 0 THEN BigAdd(whole, <<1>>) ELSE whole
  IN  IF Len(up) > 9 THEN Panic("No such local time")
      ELSE LET days == IF secs.neg THEN 0 - BigToInt(up) ELSE BigToInt(up)
               sod == IF secs.neg /\ rest > 0 THEN 86400 - rest ELSE rest
           IN  IF days < MinDays \/ days > MaxDays THEN Panic("No such local time")
               ELSE Ok(Instant(days, sod, 0, 0))

\* impl From<i64>, From<u64>, From<i32>, From<u32> for Iso8601
IsoFromInt(n) == IsoNew(AsI64(n))

\* derive(PartialEq, Eq) on Iso8601(DateTime<FixedOffset>): DateTime compares
\* the UTC date and time
IsoEq(a, b) == a.days = b.days /\ a.sod = b.sod /\ a.frac = b.frac

\* a derived comparison of the local date and time shown
IsoCmp_Local(a, b) ==
  IF LocalDays(a) # LocalDays(b) THEN (IF LocalDays(a) < LocalDays(b) THEN -1 ELSE 1)
  ELSE IF LocalSod(a) # LocalSod(b) THEN (IF LocalSod(a) < LocalSod(b) THEN -1 ELSE 1)
  ELSE IF a.frac # b.frac THEN (IF a.frac < b.frac THEN -1 ELSE 1)
  ELSE 0

\* derive(PartialOrd, Ord) on Iso8601(DateTime<FixedOffset>): DateTime compares
\* the UTC date and time; -1, 0, 1
IsoCmp(a, b) ==
  IF a.days # b.days THEN (IF a.days < b.days THEN -1 ELSE 1)
  ELSE IF a.sod # b.sod THEN (IF a.sod < b.sod THEN -1 ELSE 1)
  ELSE IF a.frac # b.frac THEN (IF a.frac < b.frac THEN -1 ELSE 1)
  ELSE 0

\* the comparator handed to sort_by: a.cmp(b), or b.cmp(a) to reverse
SortCmp(a, b, reverse) == IF reverse THEN IsoCmp(b, a) ELSE IsoCmp(a, b)

\* Vec::sort_by: a stable sort by the comparator
RECURSIVE InsertSorted(_, _, _)
InsertSorted(sorted, x, reverse) ==
  IF sorted = <<>> THEN <<x>>
  ELSE IF SortCmp(x, Head(sorted), reverse) < 0 THEN <<x>> \o sorted
  ELSE <<Head(sorted)>> \o InsertSorted(Tail(sorted), x, reverse)

RECURSIVE SortFrom(_, _, _, _)
SortFrom(v, i, acc, reverse) ==
  IF i > Len(v) THEN acc
  ELSE SortFrom(v, i + 1, InsertSorted(acc, v[i], reverse), reverse)

SortBy(v, reverse) == SortFrom(v, 1, <<>>, reverse)

(***************************************************************************)
(* Period::from_str on caller-supplied text.  The caller's text is a       *)
(* concatenation of at most MaxTokens pieces.                              *)
(***************************************************************************)

MaxTokens == 3

\* The pieces: a piece's text, the rank of the unit it spells (1 = years ..
\* 9 = nanoseconds, 0 = no unit) and whether it is a fractional seconds literal.
PeriodTokens ==
  <<
     [txt |-> <<"1", "y">>,
      rank |-> 1, frac |-> FALSE],
     [txt |-> <<"3", "d">>,
      rank |-> 3, frac |-> FALSE],
     [txt |-> <<"6", "s">>,
      rank |-> 6, frac |-> FALSE],
     [txt |-> <<"7", "m", "s">>,
      rank |-> 7, frac |-> FALSE],
     [txt |-> <<"9", "n", "s">>,
      rank |-> 9, frac |-> FALSE],
     [txt |-> <<"1", ".", "5", "s">>,
      rank |-> 6, frac |-> TRUE],
     [txt |-> <<" ">>,
      rank |-> 0, frac |-> FALSE],
     \* YR * 584554530873 > u64::max_value()
     [txt |-> <<"5", "8", "4", "5", "5", "4", "5", "3", "0", "8", "7", "3", "y">>,
      rank |-> 1, frac |-> FALSE],
     \* u64::max_value() seconds
     [txt |-> <<"1", "8", "4", "4", "6", "7", "4", "4", "0", "7", "3", "7", "0", "9", "5", "5", "1", "6", "1", "5", "s">>,
      rank |-> 6, frac |-> FALSE],
     \* one second, in nanoseconds
     [txt |-> <<"1", "0", "0", "0", "0", "0", "0", "0", "0", "0", "n", "s">>,
      rank |-> 9, frac |-> FALSE],
     \* u64::max_value() + 1 nanoseconds: not a u64
     [txt |-> <<"1", "8", "4", "4", "6", "7", "4", "4", "0", "7", "3", "7", "0", "9", "5", "5", "1", "6", "1", "6", "n", "s">>,
      rank |-> 9, frac |-> FALSE] >>

NoResult == [kind |-> "None"]
ZeroPeriod == Duration(<<0>>, 0)
NoEnv == [checked |-> FALSE, bits |-> 64]
NoInt == [ty |-> "i64", neg |-> FALSE, mag |-> <<0>>]

InitCommon ==
  /\ op = "new"
  /\ toks = <<>>
  /\ steps = 0
  /\ text = <<>>
  /\ captured = <<>>
  /\ period = ZeroPeriod
  /\ result = NoResult
  /\ env = NoEnv
  /\ vec = <<>>
  /\ epoch = NoInt

\* the caller writes one more piece of the text
AppendToken(k) ==
  /\ op = "new"
  /\ Len(toks) < MaxTokens
  /\ toks' = Append(toks, k)
  /\ text' = text \o PeriodTokens[k].txt
  /\ UNCHANGED <<op, steps, captured, period, result, env, vec, epoch>>

\* Period::from_str(text), in a build with or without overflow checks
ParsePeriod ==
  /\ op = "new"
  /\ op' = "parsed"
  /\ captured' = PeriodCaptures(text)
  /\ \E checked \in BOOLEAN :
        /\ env' = [env EXCEPT !.checked = checked]
        /\ result' = PeriodFromCaptures(captured', text, checked)
  /\ UNCHANGED <<toks, steps, text, period, vec, epoch>>

NextParse ==
  \/ \E k \in 1..Len(PeriodTokens) : AppendToken(k)
  \/ ParsePeriod

SpecParse == InitCommon /\ [][NextParse]_vars

(***************************************************************************)
(* Properties of Period::from_str                                          *)
(***************************************************************************)

NotFound == "Failed to find Period specification in"

\* the exact (unbounded) value of wt_1 * n_1 + wt_2 * n_2 + ...; <<>> when a
\* field is not a u64
RECURSIVE ExactSum(_, _, _)
ExactSum(terms, i, acc) ==
  IF i > Len(terms) THEN <<acc>>
  ELSE LET n == ParseU64(terms[i].txt)
       IN  IF n = <<>> THEN <<>>
           ELSE ExactSum(terms, i + 1, BigAdd(acc, BigMulSmall(n[1], terms[i].wt)))

\* some term's product exceeds the u64 range
TermOverflows(terms) ==
  \E i \in 1..Len(terms) :
     LET n == ParseU64(terms[i].txt)
     IN  n # <<>> /\ ~FitsU64(BigMulSmall(n[1], terms[i].wt))

\* the text matches, every field is a u64, and a product, one of the two sums
\* or the seconds total after the carry exceeds the u64 range
PeriodOverflows ==
  /\ captured # <<>>
  /\ LET seconds == ExactSum(SecondsTerms(captured[1]), 1, <<0>>)
         nanos == ExactSum(NanosTerms(captured[1]), 1, <<0>>)
     IN  /\ seconds # <<>>
         /\ nanos # <<>>
         /\ \/ TermOverflows(SecondsTerms(captured[1]))
            \/ TermOverflows(NanosTerms(captured[1]))
            \/ ~FitsU64(seconds[1])
            \/ ~FitsU64(nanos[1])
            \/ ~FitsU64(BigAdd(seconds[1], BigDivPow10(nanos[1], 9)))

\* C2: whenever a product, a sum or the carried seconds total of the parsed
\* text exceeds the u64 range, Period::from_str returns an error.
C2_OverflowIsError ==
  (op = "parsed" /\ PeriodOverflows) => result.kind = "Err"

\* C2: an overflowing text for which a build without overflow checks returns
\* a Period, its seconds reduced modulo 2^64.
C2_Wrapped ==
  /\ op = "parsed"
  /\ ~env.checked
  /\ PeriodOverflows
  /\ result.kind = "Ok"

\* the text has no character, or only whitespace
OnlyWhitespace(str) == \A i \in 1..Len(str) : IsSpace(str[i])

\* C3: Period::from_str of the empty text, or of whitespace only, returns an
\* error.
C3_EmptyIsError ==
  (op = "parsed" /\ OnlyWhitespace(text)) => result.kind = "Err"

\* C3: a text of whitespace only for which Period::from_str returns the zero
\* Period.
C3_EmptyIsZero ==
  /\ op = "parsed"
  /\ Len(text) > 0
  /\ OnlyWhitespace(text)
  /\ result = Ok(ZeroPeriod)

\* the pieces of the text that spell a unit term
UnitPieces == SelectSeq(toks, LAMBDA k : PeriodTokens[k].rank > 0)

HasFraction == \E i \in 1..Len(toks) : PeriodTokens[toks[i]].frac
HasSubSecond == \E i \in 1..Len(toks) : PeriodTokens[toks[i]].rank \in 7..9

\* C4: a text with a fractional seconds literal and an explicit millisecond,
\* microsecond or nanosecond term is rejected, and no match captures both
\* s_fra and one of ms, us, ns.
C4_MixedFormsFail ==
  op = "parsed" =>
    /\ (HasFraction /\ HasSubSecond) => result = Err(NotFound, text)
    /\ captured # <<>> =>
          ~ /\ captured[1]["s_fra"] # <<>>
            /\ \E n \in {"ms", "us", "ns"} : captured[1][n] # <<>>

\* C4: a text with both forms has been parsed and rejected.
C4_MixedParsed ==
  /\ op = "parsed"
  /\ HasFraction
  /\ HasSubSecond
  /\ Len(UnitPieces) = 2
  /\ PeriodTokens[UnitPieces[1]].frac
  /\ result.kind = "Err"

\* the unit terms are written from the longest unit to the shortest, each unit
\* at most once
DescendingUnits ==
  \A i, j \in 1..Len(UnitPieces) :
     i < j => PeriodTokens[UnitPieces[i]].rank < PeriodTokens[UnitPieces[j]].rank

\* C5: a text whose unit terms are not in strictly descending order of
\* magnitude (a unit after a shorter one, or a unit twice) is rejected; an
\* accepted text has its terms in that order.
C5_UnitOrder ==
  /\ (op = "parsed" /\ ~DescendingUnits) => result = Err(NotFound, text)
  /\ (op = "parsed" /\ result.kind = "Ok") => DescendingUnits

\* C5: a text with nanoseconds before milliseconds has been parsed and
\* rejected.
C5_OutOfOrderParsed ==
  /\ op = "parsed"
  /\ Len(UnitPieces) = 2
  /\ PeriodTokens[UnitPieces[1]].rank = 9
  /\ PeriodTokens[UnitPieces[2]].rank = 7
  /\ result.kind = "Err"

(***************************************************************************)
(* Period values: Display, Period::from_str of the displayed text, and     *)
(* Timeout::from.  The value is built from at most MaxSteps increments.    *)
(***************************************************************************)

MaxSteps == 3

\* increments of the whole seconds
SecsDeltas ==
  << <<1>>, BigOf(MN), BigOf(HR), BigOf(DY), BigOf(WK), BigOf(YR),
     \* usize::max_value() / 1000 of a 32-bit target
     <<4,2,9,4,9,6,7>>,
     \* 2^32
     <<4,2,9,4,9,6,7,2,9,6>>,
     \* usize::max_value() / 1000 of a 64-bit target
     <<1,8,4,4,6,7,4,4,0,7,3,7,0,9,5,5,1>>,
     U64Max >>

\* increments of the nanoseconds
NanosDeltas == <<1, 120, 1000, 1000000, 123000000>>

\* a Period of d more seconds, while Duration's u64 holds them
AddSecs(d) ==
  /\ op = "new"
  /\ steps < MaxSteps
  /\ FitsU64(BigAdd(period.secs, d))
  /\ period' = Duration(BigAdd(period.secs, d), period.nanos)
  /\ steps' = steps + 1
  /\ UNCHANGED <<op, toks, text, captured, result, env, vec, epoch>>

\* a Period of d more nanoseconds, below one second
AddNanos(d) ==
  /\ op = "new"
  /\ steps < MaxSteps
  /\ period.nanos + d < 1000000000
  /\ period' = Duration(period.secs, period.nanos + d)
  /\ steps' = steps + 1
  /\ UNCHANGED <<op, toks, text, captured, result, env, vec, epoch>>

\* period.to_string()
FormatPeriod ==
  /\ op = "new"
  /\ op' = "formatted"
  /\ text' = PeriodFormat(period)
  /\ UNCHANGED <<toks, steps, captured, period, result, env, vec, epoch>>

\* Period::from_str(&period.to_string())
ReparsePeriod ==
  /\ op = "formatted"
  /\ op' = "reparsed"
  /\ captured' = PeriodCaptures(text)
  /\ \E checked \in BOOLEAN :
        /\ env' = [env EXCEPT !.checked = checked]
        /\ result' = PeriodFromCaptures(captured', text, checked)
  /\ UNCHANGED <<toks, steps, text, period, vec, epoch>>

\* Timeout::from(period), on a 32-bit or a 64-bit target
ToTimeout(bits, checked) ==
  /\ op = "new"
  /\ op' = "timeout"
  /\ env' = [checked |-> checked, bits |-> bits]
  /\ result' = TimeoutFromPeriod(period, bits, checked)
  /\ UNCHANGED <<toks, steps, text, captured, period, vec, epoch>>

NextValue ==
  \/ \E i \in 1..Len(SecsDeltas) : AddSecs(SecsDeltas[i])
  \/ \E i \in 1..Len(NanosDeltas) : AddNanos(NanosDeltas[i])
  \/ FormatPeriod
  \/ ReparsePeriod
  \/ \E bits \in {32, 64}, checked \in BOOLEAN : ToTimeout(bits, checked)

SpecValue == InitCommon /\ [][NextValue]_vars

\* C1: Period::from_str of the text Display wrote for a Period returns that
\* Period exactly, and the returned Period displays as the same text.
C1_RoundTrip ==
  op = "reparsed" =>
    /\ result = Ok(period)
    /\ PeriodFormat(result.val) = text

\* C1: a Period of more than 2^63 seconds with a sub-second part, written in
\* the fractional form, has been displayed and parsed back.
C1_LargeReparsed ==
  /\ op = "reparsed"
  /\ BigCmp(period.secs, <<9,2,2,3,3,7,2,0,3,6,8,5,4,7,7,5,8,0,8>>) > 0
  /\ period.nanos > 1000000
  /\ \E i \in 1..Len(text) : text[i] = "."
  /\ result.kind = "Ok"

\* seconds * 1000 + whole milliseconds of the sub-second part, exactly
ExactMillis(p) == BigAdd(BigMulSmall(p.secs, 1000), BigOf(p.nanos \div 1000000))

\* C6: Timeout::from returns the exact millisecond count when usize holds it
\* and usize::max_value() otherwise; it never panics, wraps or truncates.
C6_SaturatesOnlyOnOverflow ==
  op = "timeout" =>
    result = Ok(IF BigCmp(ExactMillis(period), UsizeMax(env.bits)) <= 0
                THEN ExactMillis(period)
                ELSE UsizeMax(env.bits))

\* C6: on a 32-bit target a Period of 2^32 seconds or more has been converted
\* to a Timeout below usize::max_value().
C6_Truncated ==
  /\ op = "timeout"
  /\ env.bits = 32
  /\ BigCmp(period.secs, UsizeMax(32)) > 0
  /\ result.kind = "Ok"
  /\ BigCmp(result.val, UsizeMax(32)) < 0

(***************************************************************************)
(* Iso8601::from on an integer count of seconds.  The magnitude is built   *)
(* from at most MaxSteps increments and then handed over as one of the     *)
(* four integer types.                                                     *)
(***************************************************************************)

\* increments of the magnitude
EpochDeltas ==
  << <<1>>, BigOf(DY),
     \* i32::max_value() and u32::max_value()
     <<2,1,4,7,4,8,3,6,4,7>>, <<4,2,9,4,9,6,7,2,9,5>>,
     \* the seconds from the epoch to the end of chrono's last year, and from
     \* the start of its first year to the epoch
     <<8,2,1,0,2,9,8,4,1,2,7,9,9>>, <<8,3,3,4,6,3,2,8,5,1,2,0,0>>,
     I64Max, U64Max >>

\* the values of the integer types: sign and magnitude
IntFits(ty, neg, mag) ==
  /\ neg => mag # <<0>> /\ ty \in {"i32", "i64"}
  /\ BigCmp(mag, CASE ty = "i32" -> (IF neg THEN <<2,1,4,7,4,8,3,6,4,8>>
                                      ELSE <<2,1,4,7,4,8,3,6,4,7>>)
                   [] ty = "u32" -> <<4,2,9,4,9,6,7,2,9,5>>
                   [] ty = "i64" -> (IF neg THEN BigAdd(I64Max, <<1>>) ELSE I64Max)
                   [] ty = "u64" -> U64Max) <= 0

\* the caller's count grows by d
AddEpoch(d) ==
  /\ op = "new"
  /\ steps < MaxSteps
  /\ FitsU64(BigAdd(epoch.mag, d))
  /\ epoch' = [epoch EXCEPT !.mag = BigAdd(epoch.mag, d)]
  /\ steps' = steps + 1
  /\ UNCHANGED <<op, toks, text, captured, period, result, env, vec>>

\* Iso8601::from(n) for n of type ty, negative or not
FromInt(ty, neg) ==
  /\ op = "new"
  /\ IntFits(ty, neg, epoch.mag)
  /\ op' = "fromint"
  /\ epoch' = [ty |-> ty, neg |-> neg, mag |-> epoch.mag]
  /\ result' = IsoFromInt(epoch')
  /\ UNCHANGED <<toks, steps, text, captured, period, env, vec>>

NextEpoch ==
  \/ \E i \in 1..Len(EpochDeltas) : AddEpoch(EpochDeltas[i])
  \/ \E ty \in {"i32", "u32", "i64", "u64"}, neg \in BOOLEAN : FromInt(ty, neg)

SpecEpoch == InitCommon /\ [][NextEpoch]_vars

\* C8: Iso8601::from of any i32, u32, i64 or u64 returns an instant at offset
\* UTC with no sub-second part; it never panics.
C8_FromIntInfallible ==
  op = "fromint" =>
    /\ result.kind = "Ok"
    /\ result.val.off = 0
    /\ result.val.frac = 0

\* C8: Iso8601::from(i64::max_value()) has panicked.
C8_ExtremePanicked ==
  /\ op = "fromint"
  /\ epoch = [ty |-> "i64", neg |-> FALSE, mag |-> I64Max]
  /\ result.kind = "Panic"

(***************************************************************************)
(* A Vec<Iso8601> of parsed timestamps, compared and sorted.  The vector   *)
(* is the fixture of test_iso_8601_sorting, or at most MaxVec timestamps   *)
(* pushed one by one.                                                      *)
(***************************************************************************)

MaxVec == 3

\* The timestamps: the text, and the moment it denotes in seconds since
\* 1970-01-01T00:00:00Z.  The first nine are the test's fixture.
InstantTexts ==
  <<
     [txt |-> <<"2", "0", "1", "8", "-", "1", "0", "-", "1", "1", "T", "0", "3", ":", "2", "3", ":", "3", "9", "-", "0", "8", ":", "0", "0">>,
      at |-> 1539257019],
     [txt |-> <<"2", "0", "1", "8", "-", "1", "0", "-", "1", "1", "T", "0", "3", ":", "2", "3", ":", "3", "9", "-", "0", "7", ":", "0", "0">>,
      at |-> 1539253419],
     [txt |-> <<"2", "0", "1", "8", "-", "1", "0", "-", "1", "1", " ", "0", "3", ":", "2", "3", ":", "3", "9", "+", "0", "3", ":", "0", "0">>,
      at |-> 1539217419],
     [txt |-> <<"2", "0", "1", "8", "-", "1", "0", "-", "1", "1", "T", "0", "3", ":", "2", "3", ":", "3", "9", "-", "0", "6", ":", "0", "0">>,
      at |-> 1539249819],
     [txt |-> <<"2", "0", "1", "8", "1", "0", "1", "1", " ", "0", "3", "2", "3", "3", "9", " ", "+", "0", "4", ":", "0", "0">>,
      at |-> 1539213819],
     \* note the minus sign U+2212
     [txt |-> <<"2", "0", "1", "8", "-", "1", "0", "-", "1", "1", "T", "0", "3", ":", "2", "3", ":", "3", "9", UMinus, "0", "9", ":", "0", "0">>,
      at |-> 1539260619],
     [txt |-> <<"2", "0", "1", "8", "-", "1", "0", "-", "1", "1", "T", "0", "3", ":", "2", "3", ":", "3", "9", "+", "1", "1", ":", "0", "0">>,
      at |-> 1539188619],
     [txt |-> <<"2", "0", "1", "8", "-", "1", "0", "-", "1", "1", " ", "0", "3", ":", "2", "3", ":", "3", "9", "Z">>,
      at |-> 1539228219],
     [txt |-> <<"2", "0", "1", "8", "-", "1", "0", "-", "1", "1", " ", "0", "3", ":", "2", "3", ":", "4", "0">>,
      at |-> 1539228220],
     \* 03:23:39Z, shown an hour east
     [txt |-> <<"2", "0", "1", "8", "-", "1", "0", "-", "1", "1", "T", "0", "4", ":", "2", "3", ":", "3", "9", "+", "0", "1", ":", "0", "0">>,
      at |-> 1539228219],
     \* 03:23:39Z, shown on the day before
     [txt |-> <<"2", "0", "1", "8", "-", "1", "0", "-", "1", "0", "T", "1", "9", ":", "2", "3", ":", "3", "9", "-", "0", "8", ":", "0", "0">>,
      at |-> 1539228219] >>

FixtureLen == 9

\* v.push(text.try_into().unwrap())
PushInstant(k) ==
  /\ op = "new"
  /\ Len(vec) < MaxVec
  /\ IsoFromStr(InstantTexts[k].txt).kind = "Ok"
  /\ vec' = Append(vec, IsoFromStr(InstantTexts[k].txt).val)
  /\ toks' = Append(toks, k)
  /\ UNCHANGED <<op, steps, text, captured, period, result, env, epoch>>

\* let mut v: Vec<Iso8601> = vec![...]
LoadFixture ==
  /\ op = "new"
  /\ vec = <<>>
  /\ \A k \in 1..FixtureLen : IsoFromStr(InstantTexts[k].txt).kind = "Ok"
  /\ vec' = Tuple([k \in 1..FixtureLen |-> IsoFromStr(InstantTexts[k].txt).val])
  /\ toks' = Tuple([k \in 1..FixtureLen |-> k])
  /\ UNCHANGED <<op, steps, text, captured, period, result, env, epoch>>

\* v.sort_by(|a, b| a.cmp(b))
SortAscending ==
  /\ op = "new"
  /\ op' = "sorted"
  /\ vec' = SortBy(vec, FALSE)
  /\ UNCHANGED <<toks, steps, text, captured, period, result, env, epoch>>

\* v.sort_by(|a, b| b.cmp(a)), of a vector as built or already sorted
SortDescending ==
  /\ op \in {"new", "sorted"}
  /\ op' = "reversed"
  /\ vec' = SortBy(vec, TRUE)
  /\ UNCHANGED <<toks, steps, text, captured, period, result, env, epoch>>

NextInstant ==
  \/ \E k \in 1..Len(InstantTexts) : PushInstant(k)
  \/ LoadFixture
  \/ SortAscending
  \/ SortDescending

SpecInstant == InitCommon /\ [][NextInstant]_vars

\* the moment of an instant, in seconds since 1970-01-01T00:00:00Z
UnixSeconds(t) == t.days * 86400 + t.sod

\* the order the test expects after sort_by(a.cmp(b)), as displayed
FixtureAscending ==
  <<
     <<"2", "0", "1", "8", "-", "1", "0", "-", "1", "1", "T", "0", "3", ":", "2", "3", ":", "3", "9", "+", "1", "1", ":", "0", "0">>,
     <<"2", "0", "1", "8", "-", "1", "0", "-", "1", "1", "T", "0", "3", ":", "2", "3", ":", "3", "9", "+", "0", "4", ":", "0", "0">>,
     <<"2", "0", "1", "8", "-", "1", "0", "-", "1", "1", "T", "0", "3", ":", "2", "3", ":", "3", "9", "+", "0", "3", ":", "0", "0">>,
     <<"2", "0", "1", "8", "-", "1", "0", "-", "1", "1", "T", "0", "3", ":", "2", "3", ":", "3", "9", "+", "0", "0", ":", "0", "0">>,
     <<"2", "0", "1", "8", "-", "1", "0", "-", "1", "1", "T", "0", "3", ":", "2", "3", ":", "4", "0", "+", "0", "0", ":", "0", "0">>,
     <<"2", "0", "1", "8", "-", "1", "0", "-", "1", "1", "T", "0", "3", ":", "2", "3", ":", "3", "9", "-", "0", "6", ":", "0", "0">>,
     <<"2", "0", "1", "8", "-", "1", "0", "-", "1", "1", "T", "0", "3", ":", "2", "3", ":", "3", "9", "-", "0", "7", ":", "0", "0">>,
     <<"2", "0", "1", "8", "-", "1", "0", "-", "1", "1", "T", "0", "3", ":", "2", "3", ":", "3", "9", "-", "0", "8", ":", "0", "0">>,
     <<"2", "0", "1", "8", "-", "1", "0", "-", "1", "1", "T", "0", "3", ":", "2", "3", ":", "3", "9", "-", "0", "9", ":", "0", "0">> >>

Reversed(v) == Tuple([i \in 1..Len(v) |-> v[Len(v) + 1 - i]])

Displayed(v) == Tuple([i \in 1..Len(v) |-> IsoFormat(v[i])])

\* C7: each parsed Instant is at the moment its text denotes; two Instants
\* are == exactly when their moments are equal and a < b exactly when a's
\* moment is earlier, whatever their offsets; sort_by with cmp leaves the
\* vector in ascending order of moment and with the reversed cmp in
\* descending order, and the fixture ends in the order the test expects.
C7_ComparedByMoment ==
  /\ op = "new" =>
       \A i, j \in 1..Len(vec) :
          /\ UnixSeconds(vec[i]) = InstantTexts[toks[i]].at
          /\ IsoEq(vec[i], vec[j])
               <=> InstantTexts[toks[i]].at = InstantTexts[toks[j]].at
          /\ IsoCmp(vec[i], vec[j]) < 0
               <=> InstantTexts[toks[i]].at < InstantTexts[toks[j]].at
          /\ IsoCmp(vec[i], vec[j]) > 0
               <=> InstantTexts[toks[i]].at > InstantTexts[toks[j]].at
  /\ op \in {"sorted", "reversed"} =>
       /\ Len(vec) = Len(toks)
       /\ \A k \in 1..Len(toks) :
             Cardinality({i \in 1..Len(vec) : UnixSeconds(vec[i]) = InstantTexts[toks[k]].at})
             = Cardinality({i \in 1..Len(toks) : InstantTexts[toks[i]].at = InstantTexts[toks[k]].at})
  /\ op = "sorted" =>
       \A i \in 1..(Len(vec) - 1) : UnixSeconds(vec[i]) <= UnixSeconds(vec[i + 1])
  /\ op = "reversed" =>
       \A i \in 1..(Len(vec) - 1) : UnixSeconds(vec[i]) >= UnixSeconds(vec[i + 1])
  /\ (op = "sorted" /\ Len(vec) = FixtureLen) => Displayed(vec) = FixtureAscending
  /\ (op = "reversed" /\ Len(vec) = FixtureLen) => Displayed(vec) = Reversed(FixtureAscending)

\* C7: a vector holding the same moment under two offsets that show different
\* days, and a later moment shown at an earlier local time, has been sorted.
C7_MixedOffsetsSorted ==
  /\ op = "sorted"
  /\ toks = <<1, 11, 8>>
  /\ LocalDays(vec[1]) < LocalDays(vec[2])
  /\ IsoEq(vec[1], vec[2])
  /\ vec[1].off # vec[2].off
  /\ LocalSod(vec[3]) < LocalSod(vec[1])

(***************************************************************************)
(* Iso8601::from_str on caller-supplied text.  The caller's text is a      *)
(* concatenation of at most MaxTokens pieces.                              *)
(***************************************************************************)

\* The pieces: dates, times of day and timezone sections, three of them with
\* a letter, a comma and a digit where the sign belongs, and last an offset
\* of 25 hours.
IsoTokens ==
  <<
     <<"2", "0", "1", "8">>,
     <<"2", "0", "1", "8", "-", "1", "0">>,
     <<"2", "0", "1", "8", "1", "0", "1", "1">>,
     <<"2", "0", "1", "8", "-", "0", "2", "-", "3", "0">>,
     <<"T", "0", "3">>,
     <<" ", "0", "3", ":", "2", "3">>,
     <<"T", "0", "3", "2", "3", "3", "8">>,
     <<"T", "0", "3", ":", "2", "3", ":", "3", "8", ".", "5">>,
     <<"Z">>,
     <<"+", "0", "5">>,
     <<"-", "0", "5", "3", "0">>,
     <<UMinus, "0", "8", ":", "0", "0">>,
     <<"A", "0", "5">>,
     <<" ", ",", "0", "5">>,
     <<" ", "5", "0", "5">>,
     <<"+", "2", "5">> >>

\* the caller writes one more piece of the text
AppendIsoToken(k) ==
  /\ op = "new"
  /\ Len(toks) < MaxTokens
  /\ toks' = Append(toks, k)
  /\ text' = text \o IsoTokens[k]
  /\ UNCHANGED <<op, steps, captured, period, result, env, vec, epoch>>

\* Iso8601::from_str(text)
ParseIso ==
  /\ op = "new"
  /\ op' = "isoparsed"
  /\ captured' = IsoFallback(ParseRfc3339(text), text)
  /\ result' = IsoFromParts(ParseRfc3339(text), captured', text)
  /\ UNCHANGED <<toks, steps, text, period, env, vec, epoch>>

NextIsoParse ==
  \/ \E k \in 1..Len(IsoTokens) : AppendIsoToken(k)
  \/ ParseIso

SpecIsoParse == InitCommon /\ [][NextIsoParse]_vars

\* C9: whenever the flexible grammar accepts a text with a numeric timezone
\* section, the character it took for the sign is '+', '-' or the minus sign
\* U+2212, and the offset is east of UTC for '+' and west or zero otherwise.
C9_SignSet ==
  (op = "isoparsed" /\ captured # <<>> /\ captured[1]["Zsgn"] # <<>>) =>
    /\ captured[1]["Zsgn"][1] \in {<<"+">>, <<"-">>, <<UMinus>>}
    /\ result.kind = "Ok" =>
         IF captured[1]["Zsgn"][1] = <<"+">> THEN result.val.off >= 0
         ELSE result.val.off <= 0

\* C9: a text whose timezone section is "A05" has been parsed into an Instant
\* five hours west of UTC.
C9_LetterSignAccepted ==
  /\ op = "isoparsed"
  /\ captured # <<>>
  /\ captured[1]["Zsgn"] = << <<"A">> >>
  /\ result.kind = "Ok"
  /\ result.val.off = 0 - 18000

\* the captured fields written out in full, each omitted field as its default:
\* month and day 01, hour, minute and second 00, timezone minute 00, timezone Z
ExplicitText(cap) ==
  cap["Y"][1] \o <<"-">>
  \o FieldOr(cap, "M", <<"0", "1">>) \o <<"-">>
  \o FieldOr(cap, "D", <<"0", "1">>) \o <<"T">>
  \o FieldOr(cap, "h", <<"0", "0">>) \o <<":">>
  \o FieldOr(cap, "m", <<"0", "0">>) \o <<":">>
  \o FieldOr(cap, "s", <<"0", "0">>)
  \o (IF cap["ss"] = <<>> THEN <<>> ELSE <<".">> \o cap["ss"][1])
  \o (IF cap["Z"] = <<>> THEN <<"Z">>
      ELSE IF cap["Zsgn"] = <<>> THEN cap["Z"][1]
      ELSE cap["Zsgn"][1] \o cap["Zhrs"][1] \o <<":">>
           \o FieldOr(cap, "Zmin", <<"0", "0">>))

\* the timezone sign, if any, is one the grammar names: '+', '-' or U+2212
NamedSign(cap) ==
  cap["Zsgn"] = <<>> \/ cap["Zsgn"][1] \in {<<"+">>, <<"-">>, <<UMinus>>}

\* C10: a text the flexible grammar accepts (with one of its three timezone
\* signs, if any) parses to the Instant of the same fields written out in full
\* with 01 for an omitted month or day, 00 for an omitted hour, minute, second
\* or timezone minute and Z for an omitted timezone, and fails when that full
\* text fails.
C10_Defaults ==
  (op = "isoparsed" /\ captured # <<>> /\ NamedSign(captured[1])) =>
    /\ result.kind = IsoFromStr(ExplicitText(captured[1])).kind
    /\ result.kind = "Ok" => result.val = IsoFromStr(ExplicitText(captured[1])).val

\* C10: a text of a year alone has been parsed: month, day, time and
\* timezone are all omitted.
C10_YearAloneParsed ==
  /\ op = "isoparsed"
  /\ captured # <<>>
  /\ \A n \in IsoGroups \ {"Y"} : captured[1][n] = <<>>
  /\ result.kind = "Ok"
  /\ result.val = Instant(DaysFromCivil(2018, 1, 1), 0, 0, 0)

(***************************************************************************)
(* Serialize and Deserialize for Period and Iso8601.  A scalar of the      *)
(* serde data model is [ty, v]: a "str" with its text, or another type.    *)
(***************************************************************************)

\* what a failed deserialization returns: de::Error::custom(e.to_string()),
\* or the deserializer's own error for a scalar that is not a string
DeErr(msg, input) == [kind |-> "DeErr", msg |-> msg, input |-> input]

\* String::deserialize(deserializer)?: <<>> (an error) or <<the string>>
StringDeserialize(sc) == IF sc.ty = "str" THEN <<sc.v>> ELSE <<>>

\* .map_err(|e| de::Error::custom(e.to_string()))
MapDeErr(r) == IF r.kind = "Err" THEN DeErr(r.msg, r.input) ELSE r

\* impl Serialize for Period: serializer.serialize_str(&self.to_string())
PeriodSerialize(p) == [ty |-> "str", v |-> PeriodFormat(p)]

\* impl Deserialize for Period
PeriodDeserialize(sc, checked) ==
  IF StringDeserialize(sc) = <<>> THEN DeErr("invalid type", <<>>)
  ELSE MapDeErr(PeriodFromStr(StringDeserialize(sc)[1], checked))

\* impl Serialize for Iso8601: serializer.serialize_str(&self.to_string())
IsoSerialize(t) == [ty |-> "str", v |-> IsoFormat(t)]

\* impl Deserialize for Iso8601
IsoDeserialize(sc) ==
  IF StringDeserialize(sc) = <<>> THEN DeErr("invalid type", <<>>)
  ELSE MapDeErr(IsoFromStr(StringDeserialize(sc)[1]))

\* the seconds and the nanoseconds of the Periods serialized
SerdeSecs ==
  << <<0>>, <<7>>, BigOf(MN), BigOf(HR + 1), BigOf(DY), BigOf(WK), BigOf(YR), U64Max >>

SerdeNanos == <<0, 1, 120000, 123000000, 123000001, 500000000, 999999999>>

\* the integers whose Instants are serialized: the epoch, a day in 2018, the
\* last second of the year 9999 and the first of 10000, the first second of
\* the year 0000 and the last of the year before
SerdeInts ==
  << [ty |-> "u32", neg |-> FALSE, mag |-> <<0>>],
     [ty |-> "i32", neg |-> FALSE, mag |-> <<1,5,3,9,2,2,8,2,1,9>>],
     [ty |-> "i32", neg |-> TRUE, mag |-> <<2,1,4,7,4,8,3,6,4,8>>],
     [ty |-> "u64", neg |-> FALSE, mag |-> <<2,5,3,4,0,2,3,0,0,7,9,9>>],
     [ty |-> "i64", neg |-> FALSE, mag |-> <<2,5,3,4,0,2,3,0,0,8,0,0>>],
     [ty |-> "i64", neg |-> TRUE, mag |-> <<6,2,1,6,7,2,1,9,2,0,0>>],
     [ty |-> "i64", neg |-> TRUE, mag |-> <<6,2,1,6,7,2,1,9,2,0,1>>] >>

\* scalars a caller hands to a deserializer
SerdeScalars ==
  << [ty |-> "str", v |-> <<"1", "y", "2", "w", "3", "d", "4", "h", "5", "6", "m", "7", ".", "8", "9", "s">>],
     [ty |-> "str", v |-> <<"2", " ", "y", "e", "a", "r", "s", " ", "1", "8", " ", "W", "e", "e", "k", "s">>],
     [ty |-> "str", v |-> <<"b", "o", "o">>],
     [ty |-> "str", v |-> <<"7", "m", "s", "6", "s">>],
     [ty |-> "str", v |-> <<"5", "8", "4", "5", "5", "4", "5", "3", "0", "8", "7", "3", "y">>],
     [ty |-> "str", v |-> <<"2", "0", "1", "8", "-", "1", "0", "-", "1", "1", "T", "0", "3", ":", "2", "3", ":", "3", "8", "+", "0", "0", ":", "0", "0">>],
     [ty |-> "str", v |-> <<"2", "0", "1", "8", "1", "0", "1", "1", " ", "0", "3", "2", "3", "3", "8", " ", "-", "0", "8", "0", "0">>],
     [ty |-> "str", v |-> <<"2", "0", "1", "5", "-", "0", "2", "-", "1", "8", " ", "0", "3", ":", "5", "9", ":", "6", "0", "+", "2", "5">>],
     [ty |-> "u64", v |-> <<"6", "0">>],
     [ty |-> "unit", v |-> <<>>] >>

\* serde_json::to_string(&period), for a Period of secs seconds and nanos ns
SerializePeriod(secs, nanos) ==
  /\ op = "new"
  /\ op' = "period_serialized"
  /\ period' = Duration(secs, nanos)
  /\ text' = PeriodSerialize(period')
  /\ UNCHANGED <<toks, steps, captured, result, env, vec, epoch>>

\* serde_json::to_string(&iso), for an Iso8601 parsed from a text
SerializeParsed(k) ==
  /\ op = "new"
  /\ IsoFromStr(InstantTexts[k].txt).kind = "Ok"
  /\ op' = "iso_serialized"
  /\ vec' = <<IsoFromStr(InstantTexts[k].txt).val>>
  /\ text' = IsoSerialize(vec'[1])
  /\ UNCHANGED <<toks, steps, captured, period, result, env, epoch>>

\* serde_json::to_string(&iso), for an Iso8601 made from an integer
SerializeFromInt(k) ==
  /\ op = "new"
  /\ IsoFromInt(SerdeInts[k]).kind = "Ok"
  /\ op' = "iso_serialized"
  /\ epoch' = SerdeInts[k]
  /\ vec' = <<IsoFromInt(SerdeInts[k]).val>>
  /\ text' = IsoSerialize(vec'[1])
  /\ UNCHANGED <<toks, steps, captured, period, result, env>>

\* the caller has a scalar of its own
SupplyScalar(k) ==
  /\ op = "new"
  /\ op' = "supplied"
  /\ text' = SerdeScalars[k]
  /\ UNCHANGED <<toks, steps, captured, period, result, env, vec, epoch>>

\* serde_json::from_str::<Period>, of a serialized Period ("period_restored")
\* or of the caller's scalar ("period_read")
DeserializePeriod(checked) ==
  /\ op \in {"period_serialized", "supplied"}
  /\ op' = IF op = "supplied" THEN "period_read" ELSE "period_restored"
  /\ env' = [env EXCEPT !.checked = checked]
  /\ result' = PeriodDeserialize(text, checked)
  /\ UNCHANGED <<toks, steps, text, captured, period, vec, epoch>>

\* serde_json::from_str::<Iso8601>, of a serialized Iso8601 ("iso_restored")
\* or of the caller's scalar ("iso_read")
DeserializeIso ==
  /\ op \in {"iso_serialized", "supplied"}
  /\ op' = IF op = "supplied" THEN "iso_read" ELSE "iso_restored"
  /\ result' = IsoDeserialize(text)
  /\ UNCHANGED <<toks, steps, text, captured, period, env, vec, epoch>>

NextSerde ==
  \/ \E i \in 1..Len(SerdeSecs), j \in 1..Len(SerdeNanos) :
        SerializePeriod(SerdeSecs[i], SerdeNanos[j])
  \/ \E k \in 1..Len(InstantTexts) : SerializeParsed(k)
  \/ \E k \in 1..Len(SerdeInts) : SerializeFromInt(k)
  \/ \E k \in 1..Len(SerdeScalars) : SupplyScalar(k)
  \/ \E checked \in BOOLEAN : DeserializePeriod(checked)
  \/ DeserializeIso

SpecSerde == InitCommon /\ [][NextSerde]_vars

\* a deserialization returned what the parse of the scalar's text returns, an
\* error of the parse as the deserializer's error with the same message
SameAsParse(r, parsed) ==
  IF parsed.kind = "Err" THEN r = DeErr(parsed.msg, parsed.input) ELSE r = parsed

\* C11: a serialized Period or Instant is one string scalar holding its
\* displayed text; deserializing a string scalar returns what parsing its text
\* returns, so an invalid text fails; and deserializing the serialized value
\* returns a value equal to it.
C11_SerdeRoundTrip ==
  /\ op = "period_serialized" => text.ty = "str" /\ text.v = PeriodFormat(period)
  /\ op = "iso_serialized" => text.ty = "str" /\ text.v = IsoFormat(vec[1])
  /\ (op = "period_read" /\ text.ty = "str") =>
        SameAsParse(result, PeriodFromStr(text.v, env.checked))
  /\ (op = "iso_read" /\ text.ty = "str") =>
        SameAsParse(result, IsoFromStr(text.v))
  /\ op = "period_restored" => result = Ok(period)
  /\ op = "iso_restored" => result.kind = "Ok" /\ IsoEq(result.val, vec[1])

\* C11: the Instant of the first second of the year 10000 has been serialized
\* as "+10000-01-01T00:00:00+00:00" and its deserialization has failed.
C11_YearTenThousandLost ==
  /\ op = "iso_restored"
  /\ epoch.mag = <<2,5,3,4,0,2,3,0,0,8,0,0>>
  /\ text.v = <<"+", "1", "0", "0", "0", "0", "-", "0", "1", "-", "0", "1", "T", "0", "0", ":", "0", "0", ":", "0", "0", "+", "0", "0", ":", "0", "0">>
  /\ result.kind = "DeErr"

\* C12: from_str returns the strict parse when it succeeds, without running
\* the flexible grammar; when the strict parse fails and the flexible grammar
\* does not match, or matches but its re-rendered text fails the strict
\* parse, from_str returns an error that carries the original text and no
\* Instant; it never panics.
C12_ParseFailure ==
  op = "isoparsed" =>
    /\ result.kind \in {"Ok", "Err"}
    /\ ParseRfc3339(text) # <<>> =>
         result = Ok(ParseRfc3339(text)[1]) /\ captured = <<>>
    /\ (ParseRfc3339(text) = <<>> /\ captured = <<>>) =>
         result.kind = "Err" /\ result.input = text /\ IsoCaptures(text) = <<>>
    /\ (captured # <<>> /\ ParseRfc3339(Rerender(captured[1])) = <<>>) =>
         result.kind = "Err" /\ result.input = text
    /\ result.kind = "Err" => DOMAIN result = {"kind", "msg", "input"}

\* C12: a text with the offset +25 has matched the flexible grammar, been
\* re-rendered and then been rejected with an error carrying the text.
C12_OffsetOutOfRange ==
  /\ op = "isoparsed"
  /\ captured # <<>>
  /\ captured[1]["Zhrs"] = << <<"2", "5">> >>
  /\ Rerender(captured[1]) = <<"2", "0", "1", "8", "-", "1", "0", "-", "0", "1", "T", "0", "3", ":", "0", "0", ":", "0", "0", "+", "2", "5", ":", "0", "0">>
  /\ result = Err("Attempting to convert RFC 3339 timestamp from ISO 8601", text)

(***************************************************************************)
(* Period::from_str on texts that spell their units out.  The caller's     *)
(* text is a concatenation of at most MaxTokens pieces.                    *)
(***************************************************************************)

\* The pieces: a piece's text, and the same amounts written with the
\* one-letter units y w d h m s and ms us ns.  The last piece starts with a
\* colon.
SpelledTokens ==
  <<
     [txt |-> <<"2", " ", "y", "e", "a", "r", "s", " ", "1", "8", " ", "W", "e", "e", "k", "s">>,
      short |-> <<"2", "y", "1", "8", "w">>],
     [txt |-> <<"2", "y", "r">>,
      short |-> <<"2", "y">>],
     [txt |-> <<"1", "8", "w", "k">>,
      short |-> <<"1", "8", "w">>],
     [txt |-> <<" ", "4", " ", "d", "y", " ", "1", "2", " ", "h", "r", "s">>,
      short |-> <<"4", "d", "1", "2", "h">>],
     [txt |-> <<"3", "d", "a", "y", "s">>,
      short |-> <<"3", "d">>],
     [txt |-> <<"4", " ", "H", "o", "u", "r">>,
      short |-> <<"4", "h">>],
     [txt |-> <<"5", "m", "i", "n">>,
      short |-> <<"5", "m">>],
     [txt |-> <<"5", " ", "M", "i", "n", "u", "t", "e", "s">>,
      short |-> <<"5", "m">>],
     [txt |-> <<"6", "s", "e", "c", "o", "n", "d", "s", " ">>,
      short |-> <<"6", "s">>],
     [txt |-> <<"7", " ", "m", "i", "l", "l", "i", "s">>,
      short |-> <<"7", "m", "s">>],
     [txt |-> <<"8", Mu, "s", "e", "c">>,
      short |-> <<"8", "u", "s">>],
     [txt |-> <<"9", " ", "N", "A", "N", "O", "S">>,
      short |-> <<"9", "n", "s">>],
     [txt |-> <<" ", "0", ".", "0", "0", "0", "4", "5", "6", " ", "S", "E", "C">>,
      short |-> <<"4", "5", "6", "u", "s">>],
     [txt |-> <<"1", ".", "5", "s">>,
      short |-> <<"1", "s", "5", "0", "0", "m", "s">>],
     [txt |-> <<".", "0", "0", "0", "0", "0", "3", "4", "5", "6", "7", "8", "s">>,
      short |-> <<"3", "4", "5", "6", "n", "s">>],
     [txt |-> <<"2", ",", "9", "9", "9", "9", "9", "9", "9", "9", "9", "9", "9", "9", " ", "s", "e", "c", "s">>,
      short |-> <<"2", "s", "9", "9", "9", "9", "9", "9", "9", "9", "9", "n", "s">>],
     [txt |-> <<"6", ".", "0", "0", "7", "0", "0", "8", "0", "0", "9", "s">>,
      short |-> <<"6", "s", "7", "m", "s", "8", "u", "s", "9", "n", "s">>],
     [txt |-> <<":", "5", "s">>,
      short |-> <<":", "5", "s">>] >>

\* the caller writes one more piece of the text
AppendSpelled(k) ==
  /\ op = "new"
  /\ Len(toks) < MaxTokens
  /\ toks' = Append(toks, k)
  /\ text' = text \o SpelledTokens[k].txt
  /\ UNCHANGED <<op, steps, captured, period, result, env, vec, epoch>>

NextSpelled ==
  \/ \E k \in 1..Len(SpelledTokens) : AppendSpelled(k)
  \/ ParsePeriod

SpecSpelled == InitCommon /\ [][NextSpelled]_vars

\* the caller's text with every piece in its short spelling
RECURSIVE ShortText(_)
ShortText(ks) ==
  IF ks = <<>> THEN <<>> ELSE SpelledTokens[Head(ks)].short \o ShortText(Tail(ks))

\* two results of from_str agree: the same Period, or both no Period
SamePeriod(r, q) ==
  /\ r.kind = q.kind
  /\ r.kind = "Ok" => r.val = q.val

\* the text writes a decimal fraction of seconds
WritesFraction(str) == \E i \in 1..Len(str) : str[i] \in {".", ","}

\* C13: a text that spells its units long, plural, in capitals or with
\* whitespace parses to the same result as the text with the same amounts in
\* the short units: the same Period, or a failure for both.  An accepted text
\* that writes its sub-second amount as a decimal fraction of seconds parses
\* to the Period of the text that writes it in ms, us and ns.
C13_SynonymEquivalence ==
  op = "parsed" =>
    LET short == PeriodFromStr(ShortText(toks), env.checked)
    IN  /\ ~WritesFraction(text) => SamePeriod(result, short)
        /\ result.kind = "Ok" => short = result

\* C13: "2 years 18 Weeks 4 dy 12 hrs 0.000456 SEC" has parsed to the Period of
\* "2y18w4d12h456us", 123 weeks and 456 microseconds.
C13_LongSpellingParsed ==
  /\ op = "parsed"
  /\ text = <<"2", " ", "y", "e", "a", "r", "s", " ", "1", "8", " ", "W", "e", "e", "k", "s", " ", "4", " ", "d", "y", " ", "1", "2", " ", "h", "r", "s", " ", "0", ".", "0", "0", "0", "4", "5", "6", " ", "S", "E", "C">>
  /\ ShortText(toks) = <<"2", "y", "1", "8", "w", "4", "d", "1", "2", "h", "4", "5", "6", "u", "s">>
  /\ result = Ok(Duration(<<7,4,3,9,0,4,0,0>>, 456000))

(***************************************************************************)
(* Iso8601::from_str, Display and from_str again.  The caller's text is a  *)
(* concatenation of at most MaxTokens pieces.                              *)
(***************************************************************************)

\* The pieces: a piece's text, whether it is a date, a time of day or a
\* timezone section, whether it writes the second 60, and the offset it
\* writes as RFC 3339 spells it.
StampTokens ==
  <<
     [txt |-> <<"2", "0", "1", "5", "-", "0", "2", "-", "1", "8">>,
      kind |-> "date", leap |-> FALSE, zone |-> <<>>],
     [txt |-> <<"2", "0", "1", "5", "0", "2", "1", "8">>,
      kind |-> "date", leap |-> FALSE, zone |-> <<>>],
     [txt |-> <<"2", "0", "1", "8">>,
      kind |-> "date", leap |-> FALSE, zone |-> <<>>],
     [txt |-> <<"0", "0", "0", "0", "-", "0", "1", "-", "0", "1">>,
      kind |-> "date", leap |-> FALSE, zone |-> <<>>],
     [txt |-> <<"9", "9", "9", "9", "-", "1", "2", "-", "3", "1">>,
      kind |-> "date", leap |-> FALSE, zone |-> <<>>],
     [txt |-> <<"T", "2", "3", ":", "5", "9", ":", "6", "0", ".", "2", "3", "4", "5", "6", "7">>,
      kind |-> "time", leap |-> TRUE, zone |-> <<>>],
     [txt |-> <<" ", "2", "3", "5", "9", "6", "0", ",", "2", "3", "4", "5", "6", "7", " ">>,
      kind |-> "time", leap |-> TRUE, zone |-> <<>>],
     [txt |-> <<"T", "1", "2", ":", "3", "0", ":", "6", "0">>,
      kind |-> "time", leap |-> TRUE, zone |-> <<>>],
     [txt |-> <<"T", "0", "3", ":", "2", "3", ":", "3", "8", ".", "5">>,
      kind |-> "time", leap |-> FALSE, zone |-> <<>>],
     [txt |-> <<"T", "0", "0", ":", "0", "0">>,
      kind |-> "time", leap |-> FALSE, zone |-> <<>>],
     [txt |-> <<"-", "0", "5", ":", "0", "0">>,
      kind |-> "zone", leap |-> FALSE, zone |-> <<"-", "0", "5", ":", "0", "0">>],
     [txt |-> <<UMinus, "0", "5">>,
      kind |-> "zone", leap |-> FALSE, zone |-> <<"-", "0", "5", ":", "0", "0">>],
     [txt |-> <<"Z">>,
      kind |-> "zone", leap |-> FALSE, zone |-> <<"+", "0", "0", ":", "0", "0">>],
     [txt |-> <<"+", "0", "5", ":", "3", "0">>,
      kind |-> "zone", leap |-> FALSE, zone |-> <<"+", "0", "5", ":", "3", "0">>],
     [txt |-> <<"+", "2", "3", ":", "5", "9">>,
      kind |-> "zone", leap |-> FALSE, zone |-> <<"+", "2", "3", ":", "5", "9">>],
     [txt |-> <<"-", "2", "3", "5", "9">>,
      kind |-> "zone", leap |-> FALSE, zone |-> <<"-", "2", "3", ":", "5", "9">>] >>

\* the caller writes one more piece of the text
AppendStamp(k) ==
  /\ op = "new"
  /\ Len(toks) < MaxTokens
  /\ toks' = Append(toks, k)
  /\ text' = text \o StampTokens[k].txt
  /\ UNCHANGED <<op, steps, captured, period, result, env, vec, epoch>>

\* v.to_string() of the Instant that from_str returned; vec keeps v
FormatIso ==
  /\ op = "isoparsed"
  /\ result.kind = "Ok"
  /\ op' = "isoformatted"
  /\ vec' = <<result.val>>
  /\ text' = IsoFormat(result.val)
  /\ UNCHANGED <<toks, steps, captured, period, result, env, epoch>>

\* Iso8601::from_str of the text that to_string() wrote
ReparseIso ==
  /\ op = "isoformatted"
  /\ op' = "isoreparsed"
  /\ result' = IsoFromStr(text)
  /\ UNCHANGED <<toks, steps, text, captured, period, env, vec, epoch>>

NextStamp ==
  \/ \E k \in 1..Len(StampTokens) : AppendStamp(k)
  \/ ParseIso
  \/ FormatIso
  \/ ReparseIso

SpecStamp == InitCommon /\ [][NextStamp]_vars

\* the caller wrote a date, a time of day and a timezone section, in this order
DateTimeZone ==
  /\ Len(toks) = 3
  /\ StampTokens[toks[1]].kind = "date"
  /\ StampTokens[toks[2]].kind = "time"
  /\ StampTokens[toks[3]].kind = "zone"

\* the last n characters of str
Last(str, n) == SubSeq(str, Len(str) - n + 1, Len(str))

\* C14: the text written for a parsed Instant parses, without the flexible
\* grammar, to the same Instant (same moment, same offset), and writing that
\* one gives the same text again; the text of an Instant parsed from a date, a
\* time and an offset shows the second 60 when the time had it, and ends in
\* the offset that was parsed.
C14_InstantRoundTrip ==
  /\ op = "isoformatted" =>
       /\ ParseRfc3339(text) # <<>>
       /\ DateTimeZone =>
            /\ StampTokens[toks[2]].leap => SubSeq(text, 18, 19) = <<"6", "0">>
            /\ Last(text, 6) = StampTokens[toks[3]].zone
  /\ op = "isoreparsed" =>
       /\ result = Ok(vec[1])
       /\ IsoEq(result.val, vec[1])
       /\ IsoFormat(result.val) = text

\* C14: "2015-02-18T23:59:60.234567-05:00" has been parsed, written as the same
\* text and parsed again to a leap second at the offset of -5 hours.
C14_LeapSecondRestored ==
  /\ op = "isoreparsed"
  /\ text = <<"2", "0", "1", "5", "-", "0", "2", "-", "1", "8", "T", "2", "3", ":", "5", "9", ":", "6", "0", ".", "2", "3", "4", "5", "6", "7", "-", "0", "5", ":", "0", "0">>
  /\ toks = <<1, 6, 11>>
  /\ result.kind = "Ok"
  /\ result.val.frac = 1234567000
  /\ result.val.off = 0 - 18000

\* the u64 a captured field spells, 0 when the field is absent
FieldValue(cap, n) == IF cap[n] = <<>> THEN <<0>> ELSE ParseU64(cap[n][1])[1]

\* the first nine fractional digits, zeros for the missing ones, as a number
FractionNanos(cap) ==
  IF cap["s_fra"] = <<>> THEN <<0>>
  ELSE LET ds == cap["s_fra"][1]
       IN  BigNorm([i \in 1..9 |-> IF i <= Len(ds) THEN DigitVal(ds[i]) ELSE 0])

\* every captured field is a u64
FieldsAreU64 ==
  /\ captured # <<>>
  /\ ExactSum(SecondsTerms(captured[1]), 1, <<0>>) # <<>>
  /\ ExactSum(NanosTerms(captured[1]), 1, <<0>>) # <<>>

\* C15: for a matching text whose fields are u64 and whose products and sums
\* fit a u64, Period::from_str returns S + N div 10^9 seconds and N mod 10^9
\* nanoseconds, where S = 31557600 y + 604800 w + 86400 d + 3600 h + 60 m + s
\* and N = fraction_ns + 1000000 ms + 1000 us + ns, absent fields counting 0:
\* that is S * 10^9 + N nanoseconds in all, with a remainder in [0, 10^9).
C15_ParseValue ==
  (op = "parsed" /\ FieldsAreU64 /\ ~PeriodOverflows) =>
    LET cap == captured[1]
        S == BigAdd(BigMulSmall(FieldValue(cap, "y"), 31557600),
             BigAdd(BigMulSmall(FieldValue(cap, "w"), 604800),
             BigAdd(BigMulSmall(FieldValue(cap, "d"), 86400),
             BigAdd(BigMulSmall(FieldValue(cap, "h"), 3600),
             BigAdd(BigMulSmall(FieldValue(cap, "m"), 60),
                    IF cap["s"] # <<>> THEN FieldValue(cap, "s")
                    ELSE FieldValue(cap, "s_man"))))))
        N == BigAdd(FractionNanos(cap),
             BigAdd(BigMulSmall(FieldValue(cap, "ms"), 1000000),
             BigAdd(BigMulSmall(FieldValue(cap, "us"), 1000),
                    FieldValue(cap, "ns"))))
    IN  /\ result.kind = "Ok"
        /\ result.val.secs = BigAdd(S, BigDivPow10(N, 9))
        /\ result.val.nanos = BigToInt(BigModPow10(N, 9))
        /\ result.val.nanos \in 0..999999999

\* C15: "6s7ms1000000000ns" has parsed to 7 s and 7000000 ns, the second of
\* its nanoseconds carried.
C15_CarriedSecond ==
  /\ op = "parsed"
  /\ text = <<"6", "s", "7", "m", "s", "1", "0", "0", "0", "0", "0", "0", "0", "0", "0", "n", "s">>
  /\ ~PeriodOverflows
  /\ result = Ok(Duration(<<7>>, 7000000))

\* C16: a fractional digit string of length k contributes the number its
\* first min(k, 9) digits spell, times 10^(9 - min(k, 9)), as nanoseconds:
\* short strings are filled with zeros on the right, the digits after the
\* ninth are dropped without rounding, and the contribution is in [0, 10^9).
C16_FractionDigits ==
  (op = "parsed" /\ FieldsAreU64 /\ ~PeriodOverflows
     /\ captured[1]["s_fra"] # <<>>) =>
    LET ds == captured[1]["s_fra"][1]
        kept == IF Len(ds) > 9 THEN 9 ELSE Len(ds)
        value == BigToInt(BigNorm([i \in 1..kept |-> DigitVal(ds[i])]))
    IN  /\ result.kind = "Ok"
        /\ result.val.nanos = value * 10^(9 - kept)
        /\ result.val.nanos \in 0..999999999
        /\ result.val.secs = ExactSum(SecondsTerms(captured[1]), 1, <<0>>)[1]

\* C16: ".00000345678s", eleven fractional digits, has parsed to 3456 ns: the
\* digits 78 after the ninth are dropped, not rounded to 3457.
C16_ElevenDigitsCut ==
  /\ op = "parsed"
  /\ text = <<".", "0", "0", "0", "0", "0", "3", "4", "5", "6", "7", "8", "s">>
  /\ Len(captured[1]["s_fra"][1]) = 11
  /\ result = Ok(Duration(<<0>>, 3456))

\* the whole seconds that remain when the years, weeks, days, hours and
\* minutes of p are taken out
RemainingSeconds(p) ==
  ((((BigModSmall(p.secs, 31557600)) % 604800) % 86400) % 3600) % 60

\* n as nine digits, zeros in front, without its trailing zeros
NineDigitsStripped(n) ==
  LET z == IF n = 0 THEN 9
           ELSE CHOOSE k \in 0..8 : n % 10^k = 0 /\ n % 10^(k + 1) # 0
  IN  [i \in 1..(9 - z) |-> DigitChar((n \div 10^(9 - i)) % 10)]

\* the fractional rule applies to s whole seconds and n nanoseconds
FractionalRule(s, n) ==
  (s > 0 /\ n >= 1000000) \/ (n >= 1000000 /\ n % 1000 # 0)

\* str ends in tail
EndsIn(str, tail) ==
  Len(str) >= Len(tail) /\ SubSeq(str, Len(str) - Len(tail) + 1, Len(str)) = tail

\* str has a term in milliseconds, microseconds or nanoseconds
HasSubSecondTerm(str) ==
  \E i \in 1..(Len(str) - 1) : str[i] \in {"m", "u", "n"} /\ str[i + 1] = "s"

SubSecondTermCount(str) ==
  Cardinality({i \in 1..(Len(str) - 1) : str[i] \in {"m", "u", "n"} /\ str[i + 1] = "s"})

\* C18: when the fractional rule does not apply and the nanoseconds n are
\* not zero, the text Display writes ends in one sub-second term, "<n>ns" if
\* n mod 1000 # 0, else "<n/1000>us" if (n/1000) mod 1000 # 0, else
\* "<n/1000000>ms", and has no other; the term follows "<s>s" exactly when
\* the remaining whole seconds s are not zero; the written count times its
\* unit is n.
C18_AutoScale ==
  LET s == RemainingSeconds(period)
      n == period.nanos
  IN  (op = "formatted" /\ ~FractionalRule(s, n) /\ n # 0) =>
        LET unit == IF n % 1000 # 0 THEN 1
                    ELSE IF (n \div 1000) % 1000 # 0 THEN 1000
                    ELSE 1000000
            name == IF unit = 1 THEN <<"n", "s">>
                    ELSE IF unit = 1000 THEN <<"u", "s">>
                    ELSE <<"m", "s">>
            term == IntText(n \div unit) \o name
            before == Len(text) - Len(term)
        IN  /\ (n \div unit) * unit = n
            /\ EndsIn(text, term)
            /\ SubSecondTermCount(text) = 1
            /\ s # 0 => EndsIn(text, IntText(s) \o <<"s">> \o term)
            /\ s = 0 => (before = 0 \/ text[before] # "s")

\* C18: a Period of one second and 1000 ns has been written as "1s1us".
C18_SecondAndMicro ==
  /\ op = "formatted"
  /\ period = Duration(<<1>>, 1000)
  /\ ~FractionalRule(1, 1000)
  /\ text = <<"1", "s", "1", "u", "s">>

\* the positions in str of the unit letter u: an "m" of minutes is not
\* followed by "s", an "s" of seconds does not follow "m", "u" or "n"
LetterAt(str, u) ==
  {i \in 1..Len(str) :
     /\ str[i] = u
     /\ u = "m" => (i = Len(str) \/ str[i + 1] # "s")
     /\ u = "s" => (i > 1 /\ str[i - 1] \notin {"m", "u", "n"})}

\* the positions in str of the first letter of an ms, us or ns term
SubSecondAt(str) ==
  {i \in 1..(Len(str) - 1) : str[i] \in {"m", "u", "n"} /\ str[i + 1] = "s"}

\* the whole number written before position i: the digits before i, up to
\* a decimal point when the number has one
WrittenBefore(str, i) ==
  LET numeric(c) == IsAsciiDigit(c) \/ c = "."
      from == CHOOSE j \in 1..i :
                 /\ \A k \in j..(i - 1) : numeric(str[k])
                 /\ j = 1 \/ ~numeric(str[j - 1])
      points == {k \in from..(i - 1) : str[k] = "."}
      to == IF points = {} THEN i - 1
            ELSE (CHOOSE k \in points : \A l \in points : k <= l) - 1
  IN  IF to < from THEN <<>>
      ELSE BigNorm([k \in 1..(to - from + 1) |-> DigitVal(str[from + k - 1])])

\* the count str writes for the unit u, 0 when it does not write the unit
WrittenCount(str, u) ==
  IF LetterAt(str, u) = {} THEN <<0>>
  ELSE WrittenBefore(str, CHOOSE i \in LetterAt(str, u) : TRUE)

\* C19: the text Display writes for a Period is not empty; it writes each
\* of y, w, d, h, m, s at most once, in this order and before any ms, us or
\* ns term; the counts are w <= 52, d <= 6, h <= 23, m <= 59, s <= 59 and
\* 31557600 y + 604800 w + 86400 d + 3600 h + 60 m + s is the Period's whole
\* seconds; no count written is zero, other than the seconds before a
\* decimal point and the text "0s", which is written exactly for the zero
\* Period.
C19_Decomposition ==
  op = "formatted" =>
    LET units == <<"y", "w", "d", "h", "m", "s">>
        at(k) == LetterAt(text, units[k])
        n(k) == WrittenCount(text, units[k])
        fractional == \E i \in 1..Len(text) : text[i] = "."
    IN  /\ text # <<>>
        /\ \A k \in 1..6 : Cardinality(at(k)) <= 1 /\ n(k) # <<>>
        /\ \A j, k \in 1..6 : j < k => \A a \in at(j), b \in at(k) : a < b
        /\ \A k \in 1..6 : \A a \in at(k), b \in SubSecondAt(text) : a < b
        /\ BigCmp(n(2), <<5, 2>>) <= 0
        /\ BigCmp(n(3), <<6>>) <= 0
        /\ BigCmp(n(4), <<2, 3>>) <= 0
        /\ BigCmp(n(5), <<5, 9>>) <= 0
        /\ BigCmp(n(6), <<5, 9>>) <= 0
        /\ period.secs =
             BigAdd(BigMulSmall(n(1), 31557600),
             BigAdd(BigMulSmall(n(2), 604800),
             BigAdd(BigMulSmall(n(3), 86400),
             BigAdd(BigMulSmall(n(4), 3600),
             BigAdd(BigMulSmall(n(5), 60), n(6))))))
        /\ \A k \in 1..6 :
             (at(k) # {} /\ n(k) = <<0>>) =>
                k = 6 /\ (fractional \/ text = <<"0", "s">>)
        /\ \A b \in SubSecondAt(text) : WrittenBefore(text, b) \notin {<<>>, <<0>>}
        /\ text = <<"0", "s">> <=> period = ZeroPeriod

\* C19: a Period of a year, an hour and a minute has been written as "1y1h1m",
\* the weeks, days and seconds left out.
C19_ZeroUnitsElided ==
  /\ op = "formatted"
  /\ period = Duration(BigOf(YR + HR + MN), 0)
  /\ text = <<"1", "y", "1", "h", "1", "m">>
  /\ WrittenCount(text, "w") = <<0>>

\* C20: Period::from_str of a text that contains a ':' returns an error.
C20_ColonIsError ==
  (op = "parsed" /\ \E i \in 1..Len(text) : text[i] = ":") => result.kind = "Err"

\* C20: "5min:5s" has parsed to the Period of "5min5s", 305 seconds.
C20_ColonAccepted ==
  /\ op = "parsed"
  /\ text = <<"5", "m", "i", "n", ":", "5", "s">>
  /\ captured # <<>>
  /\ captured[1]["s"] = << <<"5">> >>
  /\ result = Ok(Duration(<<3, 0, 5>>, 0))

\* C21: an Instant that Iso8601::from returns for a u64 n is the moment n
\* seconds after the epoch: it is not earlier than the epoch, and its days
\* and second of the day are n div 86400 and n mod 86400, so the conversion
\* is monotone in n.
C21_CountPreserved ==
  (op = "fromint" /\ epoch.ty = "u64" /\ result.kind = "Ok") =>
    /\ result.val.days >= 0
    /\ BigOf(result.val.days) = BigDivSmall(epoch.mag, 86400)
    /\ result.val.sod = BigModSmall(epoch.mag, 86400)

\* C21: Iso8601::from(u64::max_value()) has returned the Instant one second
\* before the epoch, 1969-12-31T23:59:59Z.
C21_MaxIsBeforeEpoch ==
  /\ op = "fromint"
  /\ epoch = [ty |-> "u64", neg |-> FALSE, mag |-> U64Max]
  /\ AsI64(epoch) = [neg |-> TRUE, mag |-> <<1>>]
  /\ result = Ok(Instant(0 - 1, 86399, 0, 0))
  /\ IsoFormat(result.val) = <<"1", "9", "6", "9", "-", "1", "2", "-", "3", "1", "T", "2", "3", ":", "5", "9", ":", "5", "9", "+", "0", "0", ":", "0", "0">>

====
